---- MODULE Spec2Model ----
(***************************************************************************)
(* Ingestion core of the data-manager backend: dataset upload, apply       *)
(* mapping (map_columns), out-of-band upload (upload_file_to_update_       *)
(* patients), create_patient, promote unmapped columns, reprocess_check    *)
(* and backfill (reprocess_update), delete_dataset and clear_all_data,     *)
(* over the patients and datasets tables; the column matcher; and two      *)
(* ingestion requests served at the same time.                             *)
(*                                                                         *)
(* Values are modelled as strings: a Python str is its text, a float is    *)
(* its repr ("7.0"), an int that pandas inferred is "int:7", a bool is     *)
(* "True"/"False", None/NaN-as-None is NULL.  A JSON dict column is a      *)
(* function from its keys to values; None and {} of such a column are both *)
(* EmptyMap, because every handler below tests them with the same          *)
(* truthiness check.  Users and data sessions are outside this model; of   *)
(* the encryption at rest the model keeps what a query on the encrypted    *)
(* mrn column compares.                                                    *)
(*                                                                         *)
(* datasets and patients are the two tables (patients in insertion order,  *)
(* a record's id is its index).  resp is the outcome of the last request   *)
(* and before the tables as that request found them, so that a property of *)
(* one request is a predicate on a state.  engine is the database the      *)
(* process was started on, fixed for its lifetime.                         *)
(***************************************************************************)
EXTENDS Integers, Sequences, FiniteSets, TLC

VARIABLES datasets, patients, resp, before, engine

vars == <<datasets, patients, resp, before, engine>>

\* ------------------------------------------------------------------ bounds
\* uploaded datasets (the default dataset of upload-file comes on top)
MaxDatasets == 1
\* rows of the patients table
MaxPatients == 3

\* ------------------------------------------------------------------ values
NULL == "NULL"
NAN == "nan"
EmptyMap == << >>

Range(f) == {f[k] : k \in DOMAIN f}

\* dict.update(): keys of d2 win
DictUpdate(d1, d2) ==
    [k \in (DOMAIN d1) \cup (DOMAIN d2) |-> IF k \in DOMAIN d2 THEN d2[k] ELSE d1[k]]

Min(S) == CHOOSE x \in S : \A y \in S : x <= y

\* str.strip() on the texts of the model
Strip(s) ==
    CASE s = " " -> ""
      [] s = " M1 " -> "M1"
      [] s = " yes " -> "yes"
      [] OTHER -> s

\* str.lower() on the texts of the model
Lower(s) ==
    CASE s = "MRN" -> "mrn"
      [] s = "Points" -> "points"
      [] s = "Note" -> "note"
      [] s = "M1" -> "m1"
      [] s = " M1 " -> " m1 "
      [] s = "M2" -> "m2"
      [] s = "N/A" -> "n/a"
      [] s = "Yes" -> "yes"
      [] OTHER -> s

\* float(s) for a str s: the repr of the parsed float, NULL for ValueError
IntTexts == {"0", "3", "7"}

ParseFloat(s) ==
    CASE Strip(s) = "0" -> "0.0"
      [] Strip(s) = "3" -> "3.0"
      [] Strip(s) = "7" -> "7.0"
      [] Strip(s) = "nan" -> NAN
      [] OTHER -> NULL

\* ------------------------------------------------------------------ schema
\* PatientCreate's canonical fields kept by the model: the secondary
\* identity (a string field), a float field and a boolean field
all_canonical_fields == {"mrn", "points", "pca_confirmed"}
numeric_float_fields == {"points"}
boolean_fields == {"pca_confirmed"}
string_fields == {"mrn"}

DefaultName == "Data Manager Uploads"
UploadName == "upload.csv"

\* ------------------------------------------------------------------ files
Headers == <<"MRN", "Points", "Note">>

Row(m, p, n) == [h \in {"MRN", "Points", "Note"} |->
                    IF h = "MRN" THEN m ELSE IF h = "Points" THEN p ELSE n]

\* csv.DictReader puts the cells of a row beyond the header under restkey,
\* which is None, as a list
RESTKEY == NULL

LongRow(m, p, n, surplus) == (RESTKEY :> surplus) @@ Row(m, p, n)

\* the successive versions of the file a client works with: a header row
\* and the data rows, as csv.DictReader yields them (every cell a str); the
\* last version has a second row with one cell more than the header
FileCatalog == <<
    [columns |-> Headers, rows |-> <<Row("M1", "7", "x"), Row("M2", "N/A", " ")>>],
    [columns |-> Headers, rows |-> << >>],
    [columns |-> Headers, rows |-> <<Row("M2", "3", "yes"), Row("M1", "3", "x")>>],
    [columns |-> Headers, rows |-> <<Row("M1", "7", "x"), LongRow("M2", "3", "yes", "['z']")>>]
>>

FileIds == 1..Len(FileCatalog)

\* longer files, to reach the sampling bounds of reprocess_check: every
\* cell filled ("full"), or the Points cell of every even row blank ("gaps")
MaxSampleRows == 101
SampleSizes == <<2, 6, 21, MaxSampleRows>>
SamplePatterns == <<"full", "gaps">>

SampleRow(pattern, r) ==
    IF pattern = "gaps" /\ r % 2 = 0 THEN Row("M1", " ", "x") ELSE Row("M1", "7", "x")

SampleFiles ==
    [k \in 1..(Len(SampleSizes) * Len(SamplePatterns)) |->
        [columns |-> Headers,
         rows |-> [r \in 1..SampleSizes[((k - 1) \div Len(SamplePatterns)) + 1] |->
                     SampleRow(SamplePatterns[((k - 1) % Len(SamplePatterns)) + 1], r)]]]

SampleFileIds == {Len(FileCatalog) + k : k \in DOMAIN SampleFiles}

\* files whose Points cell is a text that float() parses to no number
NanFiles == <<
    [columns |-> Headers, rows |-> <<Row("M1", "nan", "x"), Row("M2", "7", "yes")>>],
    [columns |-> Headers, rows |-> <<Row("M1", "7", "x"), Row(" ", "nan", " ")>>]
>>

NanFileIds == {Len(FileCatalog) + Len(SampleFiles) + k : k \in DOMAIN NanFiles}

FileById(f) ==
    IF f \in FileIds THEN FileCatalog[f]
    ELSE IF f \in SampleFileIds THEN SampleFiles[f - Len(FileCatalog)]
    ELSE NanFiles[f - Len(FileCatalog) - Len(SampleFiles)]

NoFile == 0

\* the rows read from a dataset's stored_path; the default dataset's
\* stored_path is "" and every open() of it fails
FileReadable(d) == datasets[d].file # NoFile

FileOf(d) == FileById(datasets[d].file)

\* ------------------------------------------------------------------ state
NoResp == [op |-> "none", dataset_id |-> 0, status |-> 0, file |-> NoFile,
           column_map |-> EmptyMap, create_extra_fields |-> EmptyMap,
           patients_created |-> 0, patients_updated |-> 0, fields_updated |-> 0,
           error_row |-> 0, resolved |-> << >>, report |-> EmptyMap]

\* ids of the datasets table; DefaultId is the row that upload-file names
\* "Data Manager Uploads", UploadedIds are the uploaded datasets
DefaultId == 0
UploadedIds == 1..MaxDatasets

\* DATABASE_URL: PostgreSQL unless the environment selects SQLite
Engines == {"postgresql", "sqlite"}
DefaultEngine == "postgresql"

Init ==
    /\ engine = DefaultEngine
    /\ datasets = EmptyMap
    /\ patients = << >>
    /\ resp = NoResp
    /\ before = [datasets |-> EmptyMap, patients |-> << >>]

Snapshot == [datasets |-> datasets, patients |-> patients]

\* db.query(Patient).filter(dataset_id == d, patient_key == k).first()
FindByKey(db, d, k) ==
    LET hits == {i \in 1..Len(db) : db[i].dataset_id = d /\ db[i].patient_key = k}
    IN IF hits = {} THEN 0 ELSE Min(hits)

\* encrypt_phi: a Fernet token, made from the text and an IV that every call
\* draws anew
encrypt_phi(data, iv) == <<data, iv>>

\* the IV of the token a query binds for its comparison value; the token in
\* the mrn column of record i was made at the write of that record, with
\* the IV i
FreshIv == 0

\* what a record's mrn reads after it went through the EncryptedString
\* column: None and a blank str are stored as NULL and come back as None
EncryptedRoundTrip(v) == IF v = NULL \/ Strip(v) = "" THEN NULL ELSE v

\* the mrn column of record i holds a token, the one made when the record
\* was written
MrnStored(db, i) == EncryptedRoundTrip(db[i].mrn) # NULL

MrnColumn(db, i) == encrypt_phi(db[i].mrn, i)

\* what a Float column reads after the value was bound to an INSERT or
\* UPDATE: SQLite stores the NaN it is given as NULL, PostgreSQL keeps it
FloatRoundTrip(v) == IF engine = "sqlite" /\ v = NAN THEN NULL ELSE v

Persist(rec) == [rec EXCEPT !.mrn = EncryptedRoundTrip(@), !.points = FloatRoundTrip(@)]

\* db.query(Patient).filter(dataset_id == d, mrn == m).first(): the column
\* is compared with a token bound for m
FindByMrn(db, d, m) ==
    LET hits == {i \in 1..Len(db) :
                    /\ db[i].dataset_id = d
                    /\ MrnStored(db, i)
                    /\ MrnColumn(db, i) = encrypt_phi(m, FreshIv)}
    IN IF hits = {} THEN 0 ELSE Min(hits)

\* the mrn query with the comparison made on the plain texts
FindByMrnPlainAnyDataset(db, m) ==
    LET hits == {i \in 1..Len(db) : db[i].mrn = m}
    IN IF hits = {} THEN 0 ELSE Min(hits)

\* db.query(Patient).filter(mrn == m).first(): no dataset filter
FindByMrnAnyDataset(db, m) ==
    LET hits == {i \in 1..Len(db) :
                    /\ MrnStored(db, i)
                    /\ MrnColumn(db, i) = encrypt_phi(m, FreshIv)}
    IN IF hits = {} THEN 0 ELSE Min(hits)

PatientCount(d) == Cardinality({i \in 1..Len(patients) : patients[i].dataset_id = d})

\* ------------------------------------------------------------------ upload_dataset
\* POST /datasets/upload: stores the file and adds a dataset row with no
\* column map; a file with no header row is rejected
upload_dataset(f) ==
    /\ UNCHANGED engine
    /\ UploadedIds \ DOMAIN datasets # {}
    /\ LET d == Min(UploadedIds \ DOMAIN datasets)
       IN IF Len(FileCatalog[f].columns) = 0
          THEN /\ UNCHANGED <<datasets, patients>>
               /\ resp' = [NoResp EXCEPT !.op = "upload_dataset", !.status = 400, !.file = f]
          ELSE /\ datasets' = (d :> [name |-> UploadName, file |-> f, column_map |-> EmptyMap])
                                @@ datasets
               /\ UNCHANGED patients
               /\ resp' = [NoResp EXCEPT !.op = "upload_dataset", !.status = 200,
                                         !.dataset_id = d, !.file = f]
    /\ before' = Snapshot

\* ------------------------------------------------------------------ create_patient
\* POST /patients: 404 for an unknown dataset, 400 when the key is taken in
\* the dataset, else the record is stored as given
create_patient(d, key, mrn, points) ==
    /\ UNCHANGED engine
    /\ Len(patients) < MaxPatients
    /\ IF d \notin DOMAIN datasets
       THEN /\ UNCHANGED <<datasets, patients>>
            /\ resp' = [NoResp EXCEPT !.op = "create_patient", !.status = 404, !.dataset_id = d]
       ELSE IF FindByKey(patients, d, key) # 0
       THEN /\ UNCHANGED <<datasets, patients>>
            /\ resp' = [NoResp EXCEPT !.op = "create_patient", !.status = 400, !.dataset_id = d]
       ELSE /\ patients' = Append(patients, Persist(
                   [dataset_id |-> d, patient_key |-> key, mrn |-> mrn, points |-> points,
                    pca_confirmed |-> NULL, raw |-> EmptyMap, extra_fields |-> EmptyMap]))
            /\ UNCHANGED datasets
            /\ resp' = [NoResp EXCEPT !.op = "create_patient", !.status = 200, !.dataset_id = d,
                                      !.patients_created = 1]
    /\ before' = Snapshot

\* ------------------------------------------------------------------ map_columns
\* Python truthiness of a str-or-None value
Truthy(v) == v # NULL /\ v # ""

\* the value map_columns stores for a mapped cell of a canonical field
\* (csv.DictReader cells are str; a short row leaves None)
CoerceCell(field, value) ==
    IF field \in numeric_float_fields
    THEN IF value = NULL THEN NULL ELSE ParseFloat(value)
    ELSE IF field \in boolean_fields
    THEN IF value = NULL THEN NULL
         ELSE IF Strip(Lower(value)) \in {"true", "yes", "1", "y", "confirmed"}
              THEN "True" ELSE "False"
    ELSE IF value = NULL THEN NULL ELSE Strip(value)

\* patient_data's canonical part: every field None, then the mapped cells
CandidateValues(column_map, row) ==
    [f \in all_canonical_fields |->
        IF f \in DOMAIN column_map /\ column_map[f] # "" /\ column_map[f] \in DOMAIN row
        THEN CoerceCell(f, row[column_map[f]])
        ELSE NULL]

\* extra_fields of a row: first the create_extra_fields columns under their
\* custom names, then every column neither mapped nor listed there under
\* its header; None cells are skipped, other cells kept as read
RowExtraFields(column_map, create_extra_fields, row) ==
    LET mapped_csv_columns == Range(column_map) \cup DOMAIN create_extra_fields
        named == {c \in DOMAIN create_extra_fields : c \in DOMAIN row /\ row[c] # NULL}
        custom == [n \in {create_extra_fields[c] : c \in named} |->
                      row[CHOOSE c \in named : create_extra_fields[c] = n]]
        rest == {c \in DOMAIN row : c \notin mapped_csv_columns /\ row[c] # NULL}
    IN DictUpdate(custom, [c \in rest |-> row[c]])

\* existing_patient is a local of map_columns that nothing binds before the
\* row loop; reading it unbound raises UnboundLocalError
UNBOUND == 0 - 1

ExistingBeforeLoop == UNBOUND

\* should_update: the stored value is None, a blank str or an empty dict
ShouldUpdate(field, current_value) ==
    IF field \in {"raw", "extra_fields"} THEN current_value = EmptyMap
    ELSE \/ current_value = NULL
         \/ field \in string_fields /\ Strip(current_value) = ""

\* the new value is written: not None, and not a blank str or empty dict
Writable(field, new_value) ==
    IF field \in {"raw", "extra_fields"} THEN new_value # EmptyMap
    ELSE /\ new_value # NULL
         /\ field \in string_fields => Strip(new_value) # ""

UpdatableFields == all_canonical_fields \cup {"raw", "extra_fields"}

\* the fill-only-if-missing loop over patient_data.items()
FillMissing(rec, patient_data) ==
    [k \in DOMAIN rec |->
        IF k \in UpdatableFields /\ ShouldUpdate(k, rec[k]) /\ Writable(k, patient_data[k])
        THEN patient_data[k] ELSE rec[k]]

\* lookup of the row's record: by patient_key, and only if that finds
\* nothing and the row has an mrn, by mrn; both in the dataset
ResolveExisting(db, d, patient_key, mrn) ==
    LET by_key == FindByKey(db, d, patient_key)
    IN IF by_key = 0 /\ Truthy(mrn) THEN FindByMrn(db, d, mrn) ELSE by_key

\* PatientCreate(**patient_data): raw and extra_fields are Dict[str, Any],
\* a key that is not a str fails validation
PatientCreateValid(patient_data) ==
    /\ RESTKEY \notin DOMAIN patient_data.raw
    /\ RESTKEY \notin DOMAIN patient_data.extra_fields

\* one iteration of the row loop. st: objs, the session's loaded records
\* with their unflushed changes; pending, the records added and not yet
\* flushed (autoflush is off, so no query sees them); existing, the local
\* existing_patient; the counters; err, the row that raised; resolved, for
\* each row done the record it resolved to (0: a new record)
MapRow(st, db, d, req, row, row_idx) ==
    LET values == CandidateValues(req.column_map, row)
        extra_row == RowExtraFields(req.column_map, req.create_extra_fields, row)
        merged == IF st.existing > 0 /\ st.objs[st.existing].extra_fields # EmptyMap
                  THEN DictUpdate(st.objs[st.existing].extra_fields, extra_row)
                  ELSE extra_row
        patient_data == values @@ [dataset_id |-> d, patient_key |-> ToString(row_idx),
                                   raw |-> row, extra_fields |-> merged]
        existing == ResolveExisting(db, d, patient_data.patient_key, patient_data.mrn)
    IN IF st.existing = UNBOUND
       THEN [st EXCEPT !.err = row_idx, !.status = 500]
       ELSE IF existing # 0
       THEN LET filled == FillMissing(st.objs[existing], patient_data)
            IN [st EXCEPT !.existing = existing,
                          !.objs[existing] = filled,
                          !.updated = @ + (IF filled # st.objs[existing] THEN 1 ELSE 0),
                          !.resolved = Append(@, existing)]
       ELSE IF ~PatientCreateValid(patient_data)
       THEN [st EXCEPT !.existing = 0, !.err = row_idx, !.status = 400]
       ELSE [st EXCEPT !.existing = 0,
                       !.pending = Append(@, patient_data),
                       !.created = @ + 1,
                       !.resolved = Append(@, 0)]

RECURSIVE MapRows(_, _, _, _, _, _)
MapRows(st, db, d, req, rows, i) ==
    IF i > Len(rows) \/ st.err # 0 THEN st
    ELSE MapRows(MapRow(st, db, d, req, rows[i], i), db, d, req, rows, i + 1)

\* the save with the supplied map merged into the stored one
SaveColumnMapMerged(ds, d, column_map) ==
    [ds EXCEPT ![d].column_map = DictUpdate(@, column_map)]

\* dataset.column_map = mapping.column_map
SaveColumnMap(ds, d, column_map) == [ds EXCEPT ![d].column_map = column_map]

\* the validation with the existence test left out
InvalidColumnsUnchecked(column_map, available_columns) == {}

\* invalid_columns: the fields mapped to a non-empty header that is not in
\* the file; an empty header is passed over
InvalidColumns(column_map, available_columns) ==
    {f \in DOMAIN column_map :
        column_map[f] # "" /\ column_map[f] \notin Range(available_columns)}

\* POST /datasets/{id}/map
map_columns(d, req) ==
    /\ UNCHANGED engine
    /\ d \in DOMAIN datasets
    /\ before' = Snapshot
    /\ LET base == [NoResp EXCEPT !.op = "map_columns", !.dataset_id = d,
                                  !.file = datasets[d].file,
                                  !.column_map = req.column_map,
                                  !.create_extra_fields = req.create_extra_fields]
       IN IF req.column_map = EmptyMap \/ ~FileReadable(d)
          THEN /\ resp' = [base EXCEPT !.status = 400]
               /\ UNCHANGED <<datasets, patients>>
          ELSE IF InvalidColumns(req.column_map, FileOf(d).columns) # {}
          THEN /\ resp' = [base EXCEPT !.status = 400]
               /\ UNCHANGED <<datasets, patients>>
          ELSE LET st0 == [objs |-> patients, pending |-> << >>,
                           existing |-> ExistingBeforeLoop,
                           created |-> 0, updated |-> 0, err |-> 0, status |-> 200,
                           resolved |-> << >>]
                   st == MapRows(st0, patients, d, req, FileOf(d).rows, 1)
               IN /\ Len(patients) + Len(st.pending) <= MaxPatients
                  /\ IF st.err # 0
                     THEN /\ resp' = [base EXCEPT
                                        !.status = st.status,
                                        !.error_row = IF st.status = 400 THEN st.err ELSE 0,
                                        !.resolved = st.resolved]
                          /\ UNCHANGED <<datasets, patients>>
                     ELSE /\ patients' = [n \in 1..(Len(st.objs) + Len(st.pending)) |->
                                             Persist((st.objs \o st.pending)[n])]
                          /\ datasets' = SaveColumnMap(datasets, d, req.column_map)
                          /\ resp' = [base EXCEPT !.status = 200,
                                                  !.patients_created = st.created,
                                                  !.patients_updated = st.updated,
                                                  !.resolved = st.resolved]

\* ------------------------------------------------------------------ stored file
\* every pass opens dataset.stored_path anew and reads what is there at
\* that moment; the file under uploads/ is replaced by a later version
\* between passes
stored_file_replaced(d, f) ==
    /\ UNCHANGED engine
    /\ d \in DOMAIN datasets
    /\ FileReadable(d)
    /\ datasets[d].file < f
    /\ datasets' = [datasets EXCEPT ![d].file = f]
    /\ UNCHANGED patients
    /\ resp' = [NoResp EXCEPT !.op = "stored_file_replaced", !.dataset_id = d, !.file = f]
    /\ before' = Snapshot

\* ------------------------------------------------------------------ reprocess
Max(S) == CHOOSE x \in S : \A y \in S : x >= y

\* patient_by_key = {p.patient_key: p for p in patients}: of two records
\* with one key the later of the query wins
PatientByKey(db, d, k) ==
    LET hits == {i \in 1..Len(db) : db[i].dataset_id = d /\ db[i].patient_key = k}
    IN IF hits = {} THEN 0 ELSE Max(hits)

\* is_missing written as "not db_value": 0.0 and False count as missing
IsMissingFalsy(field, db_value) ==
    \/ db_value \in {NULL, "0.0", "False"}
    \/ field \in string_fields /\ Strip(db_value) = ""

\* is_missing of reprocess_update: None, a blank str, an empty dict or list
IsMissing(field, db_value) ==
    \/ db_value = NULL
    \/ field \in string_fields /\ Strip(db_value) = ""

\* the conversion of reprocess_update; NULL stands for "continue", the
\* field is skipped
ReprocessConvert(field, csv_value) ==
    IF field \in numeric_float_fields THEN ParseFloat(csv_value)
    ELSE IF field \in boolean_fields
    THEN IF Lower(csv_value) \in {"true", "1", "yes", "y", "t"} THEN "True" ELSE "False"
    ELSE IF Strip(csv_value) = "" THEN NULL ELSE Strip(csv_value)

\* the value reprocess_update writes into a field of the row's record, or
\* NULL when it leaves the field alone
BackfillValue(column_map, row, rec, field) ==
    LET csv_value == IF column_map[field] \in DOMAIN row THEN row[column_map[field]] ELSE NULL
    IN IF field \notin all_canonical_fields THEN NULL
       ELSE IF csv_value = NULL \/ Strip(csv_value) = "" THEN NULL
       ELSE IF ~IsMissing(field, rec[field]) THEN NULL
       ELSE ReprocessConvert(field, csv_value)

BackfillFields(column_map, row, rec) ==
    {f \in DOMAIN column_map : BackfillValue(column_map, row, rec, f) # NULL}

Backfill(column_map, row, rec) ==
    [k \in DOMAIN rec |->
        IF k \in BackfillFields(column_map, row, rec)
        THEN BackfillValue(column_map, row, rec, k) ELSE rec[k]]

\* the row (0: none) whose ordinal key patient_by_key resolves to record i
RowOfRecord(db, d, rows, i) ==
    LET hits == {r \in 1..Len(rows) :
                    ToString(r) = db[i].patient_key /\ PatientByKey(db, d, ToString(r)) = i}
    IN IF hits = {} THEN 0 ELSE Min(hits)

\* POST /datasets/{id}/reprocess-update
reprocess_update(d) ==
    /\ UNCHANGED engine
    /\ d \in DOMAIN datasets
    /\ before' = Snapshot
    /\ LET base == [NoResp EXCEPT !.op = "reprocess_update", !.dataset_id = d,
                                  !.file = datasets[d].file,
                                  !.column_map = datasets[d].column_map]
       IN IF datasets[d].column_map = EmptyMap \/ ~FileReadable(d)
          THEN /\ resp' = [base EXCEPT !.status = 400]
               /\ UNCHANGED <<datasets, patients>>
          ELSE LET rows == FileOf(d).rows
                   cm == datasets[d].column_map
                   row_of(i) == RowOfRecord(patients, d, rows, i)
                   touched == {i \in 1..Len(patients) : row_of(i) # 0}
                   n_fields(i) == Cardinality(BackfillFields(cm, rows[row_of(i)], patients[i]))
               IN /\ patients' = [i \in 1..Len(patients) |->
                                    IF i \in touched
                                    THEN Persist(Backfill(cm, rows[row_of(i)], patients[i]))
                                    ELSE patients[i]]
                  /\ UNCHANGED datasets
                  /\ resp' = [base EXCEPT
                        !.status = 200,
                        !.patients_updated =
                            Cardinality({i \in touched : n_fields(i) > 0}),
                        !.fields_updated =
                            Cardinality({x \in touched \X DOMAIN cm :
                                x[2] \in BackfillFields(cm, rows[row_of(x[1])],
                                                        patients[x[1]])})]

\* ------------------------------------------------------------------ promote
\* the columns of the file that are no value of the stored column map
UnmappedColumns(d) ==
    SelectSeq(FileOf(d).columns, LAMBDA c : c \notin Range(datasets[d].column_map))

\* the promotion without the test for a key already present
PromoteOverwriting(unmapped, row, rec) ==
    LET added == {c \in Range(unmapped) : c \in DOMAIN row /\ row[c] # NULL}
    IN [rec EXCEPT !.extra_fields = DictUpdate(rec.extra_fields, [c \in added |-> row[c]])]

\* the extra_fields of a record after its row's unmapped columns were
\* added: a None cell and a key already present are skipped
Promote(unmapped, row, rec) ==
    LET extra == rec.extra_fields
        added == {c \in Range(unmapped) :
                     c \in DOMAIN row /\ row[c] # NULL /\ c \notin DOMAIN extra}
    IN [rec EXCEPT !.extra_fields = DictUpdate(extra, [c \in added |-> row[c]])]

\* POST /datasets/{id}/add-unmapped-to-extra-fields
add_unmapped_to_extra_fields(d) ==
    /\ UNCHANGED engine
    /\ d \in DOMAIN datasets
    /\ before' = Snapshot
    /\ LET base == [NoResp EXCEPT !.op = "add_unmapped_to_extra_fields", !.dataset_id = d,
                                  !.file = datasets[d].file,
                                  !.column_map = datasets[d].column_map]
       IN IF PatientCount(d) = 0 \/ ~FileReadable(d)
          THEN /\ resp' = [base EXCEPT !.status = 400]
               /\ UNCHANGED <<datasets, patients>>
          ELSE LET rows == FileOf(d).rows
                   unmapped == UnmappedColumns(d)
                   row_of(i) == RowOfRecord(patients, d, rows, i)
                   new(i) == IF row_of(i) = 0 THEN patients[i]
                             ELSE Promote(unmapped, rows[row_of(i)], patients[i])
               IN /\ patients' = [i \in 1..Len(patients) |-> new(i)]
                  /\ UNCHANGED datasets
                  /\ resp' = [base EXCEPT
                        !.status = 200,
                        !.patients_updated =
                            Cardinality({i \in 1..Len(patients) : new(i) # patients[i]})]

\* ------------------------------------------------------------------ reprocess_check
\* rows[:100], the sample values kept per field, the rows returned
SampledRows == 100
MaxSampleValues == 5
MaxMissingRows == 20

\* s[:n] of a list
Take(s, n) == SubSeq(s, 1, IF Len(s) < n THEN Len(s) ELSE n)

\* the members of a set of row ordinals in file order
InFileOrder(S, n) == SelectSeq([r \in 1..n |-> r], LAMBDA r : r \in S)

\* row.get(csv_column)
CsvValue(column_map, row, field) ==
    IF column_map[field] \in DOMAIN row THEN row[column_map[field]] ELSE NULL

\* the cell test without the trimming: not None and not ""
CsvNotEmpty(csv_value) == ~(csv_value = NULL \/ csv_value = "")

\* the cell holds a value: not None and not a blank str
CsvPresent(csv_value) == ~(csv_value = NULL \/ Strip(csv_value) = "")

\* the record's value is missing: None or a blank str
DbMissing(field, db_value) ==
    \/ db_value = NULL
    \/ field \in string_fields /\ Strip(db_value) = ""

\* row_missing of a row: empty when no record has the row's ordinal key
RowMissing(db, d, column_map, rows, row_idx) ==
    LET patient == PatientByKey(db, d, ToString(row_idx))
    IN IF patient = 0 THEN {}
       ELSE {f \in DOMAIN column_map :
                /\ f \in all_canonical_fields
                /\ CsvPresent(CsvValue(column_map, rows[row_idx], f))
                /\ DbMissing(f, db[patient][f])}

\* unmapped_columns with the columns taken in any order
UnmappedReversed(file_columns, column_map) ==
    LET unmapped == SelectSeq(file_columns, LAMBDA c : c \notin Range(column_map))
    IN [k \in 1..Len(unmapped) |-> unmapped[Len(unmapped) + 1 - k]]

\* unmapped_columns: the columns of the file that are no value of the map
Unmapped(file_columns, column_map) ==
    SelectSeq(file_columns, LAMBDA c : c \notin Range(column_map))

\* the response of reprocess_check; str(csv_value)[:100] leaves the texts
\* of the model, all shorter than 100, as they are
ReprocessCheckResponse(file, column_map, db, d) ==
    LET rows == file.rows
        n == IF Len(rows) < SampledRows THEN Len(rows) ELSE SampledRows
        missing == [r \in 1..n |-> RowMissing(db, d, column_map, rows, r)]
        rows_of(f) == InFileOrder({r \in 1..n : f \in missing[r]}, n)
        flagged == {f \in DOMAIN column_map : \E r \in 1..n : f \in missing[r]}
        mrn_of(r) == db[PatientByKey(db, d, ToString(r))].mrn
        sample(f, r) == [patient_key |-> ToString(r), mrn |-> mrn_of(r),
                         value |-> rows[r][column_map[f]]]
        with_missing == InFileOrder({r \in 1..n : missing[r] # {}}, n)
        entry(r) == [patient_key |-> ToString(r), mrn |-> mrn_of(r),
                     missing_fields |->
                        [f \in missing[r] |-> [csv_value |-> rows[r][column_map[f]],
                                               csv_column |-> column_map[f]]]]
        in_dataset == {i \in 1..Len(db) : db[i].dataset_id = d}
    IN [unmapped_columns |-> Unmapped(file.columns, column_map),
        extra_fields_columns |->
            {c \in Range(file.columns) : \E i \in in_dataset : c \in DOMAIN db[i].extra_fields},
        missing_data_summary |->
            [f \in flagged |->
                [csv_column |-> column_map[f],
                 missing_count |-> Len(rows_of(f)),
                 sample_values |-> [k \in 1..Len(Take(rows_of(f), MaxSampleValues)) |->
                                       sample(f, rows_of(f)[k])]]],
        total_rows_in_file |-> Len(rows),
        total_patients_in_db |-> Cardinality(in_dataset),
        rows_with_missing_data |->
            [k \in 1..Len(Take(with_missing, MaxMissingRows)) |-> entry(with_missing[k])]]

\* a check that writes the null points it finds
CheckedStoreFilled(db) ==
    [i \in 1..Len(db) |-> [db[i] EXCEPT !.points = IF @ = NULL THEN "0" ELSE @]]

\* what the request leaves in the tables: it adds nothing to its session
\* and never commits
CheckedStore(db) == db

\* GET /datasets/{id}/reprocess-check
reprocess_check(d) ==
    /\ UNCHANGED engine
    /\ d \in DOMAIN datasets
    /\ before' = Snapshot
    /\ UNCHANGED datasets
    /\ patients' = CheckedStore(patients)
    /\ LET base == [NoResp EXCEPT !.op = "reprocess_check", !.dataset_id = d,
                                  !.file = datasets[d].file,
                                  !.column_map = datasets[d].column_map]
       IN IF datasets[d].column_map = EmptyMap \/ ~FileReadable(d)
          THEN resp' = [base EXCEPT !.status = 400]
          ELSE \E report \in {ReprocessCheckResponse(FileOf(d), datasets[d].column_map,
                                                     patients, d)} :
                  resp' = [base EXCEPT !.status = 200, !.report = report]

\* ------------------------------------------------------------------ delete_dataset
\* the dataset's table without the row d
WithoutDataset(ds, d) == [x \in DOMAIN ds \ {d} |-> ds[x]]

\* the deletion with the patient count left out
DeleteNeverBlocked(d) == FALSE

\* patient_count > 0: the dataset has records
DeleteBlocked(d) == PatientCount(d) > 0

\* DELETE /datasets/{id}: 400 while the dataset has records, else the
\* stored file and the dataset row are removed
delete_dataset(d) ==
    /\ UNCHANGED engine
    /\ d \in DOMAIN datasets
    /\ before' = Snapshot
    /\ UNCHANGED patients
    /\ LET base == [NoResp EXCEPT !.op = "delete_dataset", !.dataset_id = d,
                                  !.file = datasets[d].file]
       IN IF DeleteBlocked(d)
          THEN /\ resp' = [base EXCEPT !.status = 400]
               /\ UNCHANGED datasets
          ELSE /\ resp' = [base EXCEPT !.status = 200]
               /\ datasets' = WithoutDataset(datasets, d)

\* ------------------------------------------------------------------ clear_all_data
\* the files of the session's datasets are unlinked before anything is
\* deleted from the tables
FilesUnlinked(ds) == [x \in DOMAIN ds |-> [ds[x] EXCEPT !.file = NoFile]]

\* DELETE /session/clear-all.  The records are deleted with
\* Query.join(Dataset)...delete(): an ORM that refuses a bulk delete on a
\* joined query raises there, the handler rolls back and answers 500 with
\* only the files gone; otherwise records and datasets go in one commit
clear_all_data(bulk_delete_raises) ==
    /\ UNCHANGED engine
    /\ DOMAIN datasets # {}
    /\ before' = Snapshot
    /\ IF bulk_delete_raises
       THEN /\ datasets' = FilesUnlinked(datasets)
            /\ UNCHANGED patients
            /\ resp' = [NoResp EXCEPT !.op = "clear_all_data", !.status = 500]
       ELSE /\ datasets' = EmptyMap
            /\ patients' = << >>
            /\ resp' = [NoResp EXCEPT !.op = "clear_all_data", !.status = 200,
                                      !.patients_updated = Len(patients)]

\* ------------------------------------------------------------------ column matcher
\* The string functions of column_matcher.py are tables over the texts of the
\* model: the headers, the patterns and the field names.
\* col_clean: re.sub(r'\([^)]*\)', '', col).strip()
ColClean(col) ==
    CASE col = "Last Name (LN)" -> "Last Name"
      [] OTHER -> col

\* pattern_clean: re.sub(r'[.*^$]+', '', pattern).strip()
PatternClean(pattern) ==
    CASE pattern = "F.N." -> "FN"
      [] pattern = "L.N." -> "LN"
      [] pattern = "M.R.N." -> "MRN"
      [] pattern = "family.*name" -> "familyname"
      [] pattern = "first.*name" -> "firstname"
      [] pattern = "given.*name" -> "givenname"
      [] pattern = "last.*name" -> "lastname"
      [] pattern = "medical.*record" -> "medicalrecord"
      [] pattern = "patient.*id" -> "patientid"
      [] pattern = "patient.*number" -> "patientnumber"
      [] OTHER -> pattern

\* re.sub(r'[_\-\s\.]+', '', s.lower())
Compact(s) ==
    CASE s = "Category Grade" -> "categorygrade"
      [] s = "DOS" -> "dos"
      [] s = "FN" -> "fn"
      [] s = "First Name" -> "firstname"
      [] s = "FirstName" -> "firstname"
      [] s = "LN" -> "ln"
      [] s = "Last Name" -> "lastname"
      [] s = "LastName" -> "lastname"
      [] s = "MRN" -> "mrn"
      [] s = "Note" -> "note"
      [] s = "Patient ID" -> "patientid"
      [] s = "Points" -> "points"
      [] s = "Pts" -> "pts"
      [] s = "Risk Score" -> "riskscore"
      [] s = "age_group" -> "agegroup"
      [] s = "date_of_service" -> "dateofservice"
      [] s = "family_history" -> "familyhistory"
      [] s = "first_name" -> "firstname"
      [] s = "genetic_mutation" -> "geneticmutation"
      [] s = "gleason_grade" -> "gleasongrade"
      [] s = "last_name" -> "lastname"
      [] s = "pca_confirmed" -> "pcaconfirmed"
      [] s = "reason_for_visit" -> "reasonforvisit"
      [] OTHER -> s

\* str.upper()
Upper(s) ==
    CASE s = "Category Grade" -> "CATEGORY GRADE"
      [] s = "First Name" -> "FIRST NAME"
      [] s = "FirstName" -> "FIRSTNAME"
      [] s = "Last Name" -> "LAST NAME"
      [] s = "LastName" -> "LASTNAME"
      [] s = "Note" -> "NOTE"
      [] s = "Patient ID" -> "PATIENT ID"
      [] s = "Points" -> "POINTS"
      [] s = "Pts" -> "PTS"
      [] s = "Risk Score" -> "RISK SCORE"
      [] s = "familyname" -> "FAMILYNAME"
      [] s = "firstname" -> "FIRSTNAME"
      [] s = "fn" -> "FN"
      [] s = "fname" -> "FNAME"
      [] s = "givenname" -> "GIVENNAME"
      [] s = "lastname" -> "LASTNAME"
      [] s = "ln" -> "LN"
      [] s = "lname" -> "LNAME"
      [] s = "medicalrecord" -> "MEDICALRECORD"
      [] s = "mrn" -> "MRN"
      [] s = "patientid" -> "PATIENTID"
      [] s = "patientnumber" -> "PATIENTNUMBER"
      [] s = "surname" -> "SURNAME"
      [] OTHER -> s

\* normalize_column_name: lower, strip, runs of _ - and blanks to one blank
normalize_column_name(col_name) ==
    CASE col_name = "Category Grade" -> "category grade"
      [] col_name = "DOS" -> "dos"
      [] col_name = "First Name" -> "first name"
      [] col_name = "Last Name" -> "last name"
      [] col_name = "Last Name (LN)" -> "last name (ln)"
      [] col_name = "MRN" -> "mrn"
      [] col_name = "Note" -> "note"
      [] col_name = "Patient ID" -> "patient id"
      [] col_name = "Points" -> "points"
      [] col_name = "Pts" -> "pts"
      [] col_name = "Risk Score" -> "risk score"
      [] col_name = "first_name" -> "first name"
      [] col_name = "last_name" -> "last name"
      [] OTHER -> col_name

\* normalized_clean: re.sub(r'[_\-\s]+', '', normalized)
NormalizedClean(normalized) ==
    CASE normalized = "category grade" -> "categorygrade"
      [] normalized = "first name" -> "firstname"
      [] normalized = "last name" -> "lastname"
      [] normalized = "patient id" -> "patientid"
      [] normalized = "risk score" -> "riskscore"
      [] OTHER -> normalized

\* pattern.replace('.*', '').replace('^', '').replace('$', '').strip()
PatternStripped(pattern) ==
    CASE pattern = "^age group$" -> "age group"
      [] pattern = "^category$" -> "category"
      [] pattern = "^date of service$" -> "date of service"
      [] pattern = "^fh of prostate$" -> "fh of prostate"
      [] pattern = "^fh$" -> "fh"
      [] pattern = "^first name$" -> "first name"
      [] pattern = "^firstname$" -> "firstname"
      [] pattern = "^fn$" -> "fn"
      [] pattern = "^genetic risk$" -> "genetic risk"
      [] pattern = "^genetic$" -> "genetic"
      [] pattern = "^gg$" -> "gg"
      [] pattern = "^gleason$" -> "gleason"
      [] pattern = "^last name$" -> "last name"
      [] pattern = "^lastname$" -> "lastname"
      [] pattern = "^ln$" -> "ln"
      [] pattern = "^location$" -> "location"
      [] pattern = "^m\\.r\\.n\\.?$" -> "m\\.r\\.n\\.?"
      [] pattern = "^mrn$" -> "mrn"
      [] pattern = "^pca confirmed" -> "pca confirmed"
      [] pattern = "^percent$" -> "percent"
      [] pattern = "^points$" -> "points"
      [] pattern = "^race$" -> "race"
      [] pattern = "^reason for visit$" -> "reason for visit"
      [] pattern = "age.*group" -> "agegroup"
      [] pattern = "age.*range" -> "agerange"
      [] pattern = "cancer.*confirmed" -> "cancerconfirmed"
      [] pattern = "chief.*complaint" -> "chiefcomplaint"
      [] pattern = "date.*service" -> "dateservice"
      [] pattern = "family.*history" -> "familyhistory"
      [] pattern = "family.*hx" -> "familyhx"
      [] pattern = "family.*name" -> "familyname"
      [] pattern = "first.*name" -> "firstname"
      [] pattern = "given.*name" -> "givenname"
      [] pattern = "gleason.*grade" -> "gleasongrade"
      [] pattern = "last.*name" -> "lastname"
      [] pattern = "medical.*record" -> "medicalrecord"
      [] pattern = "patient.*id" -> "patientid"
      [] pattern = "patient.*number" -> "patientnumber"
      [] pattern = "pca.*confirmed" -> "pcaconfirmed"
      [] pattern = "presenting.*problem" -> "presentingproblem"
      [] pattern = "prostate.*cancer" -> "prostatecancer"
      [] pattern = "reason.*visit" -> "reasonvisit"
      [] pattern = "risk.*category" -> "riskcategory"
      [] pattern = "service.*date" -> "servicedate"
      [] pattern = "total.*points" -> "totalpoints"
      [] pattern = "visit.*date" -> "visitdate"
      [] OTHER -> pattern

\* pattern_clean of calculate_match_score: re.sub(r'[.*^$]+', '', pattern).replace(' ', '').lower()
PatternCompact(pattern) ==
    CASE pattern = "^age group$" -> "agegroup"
      [] pattern = "^category$" -> "category"
      [] pattern = "^date of service$" -> "dateofservice"
      [] pattern = "^fh of prostate$" -> "fhofprostate"
      [] pattern = "^fh$" -> "fh"
      [] pattern = "^first name$" -> "firstname"
      [] pattern = "^firstname$" -> "firstname"
      [] pattern = "^fn$" -> "fn"
      [] pattern = "^genetic risk$" -> "geneticrisk"
      [] pattern = "^genetic$" -> "genetic"
      [] pattern = "^gg$" -> "gg"
      [] pattern = "^gleason$" -> "gleason"
      [] pattern = "^last name$" -> "lastname"
      [] pattern = "^lastname$" -> "lastname"
      [] pattern = "^ln$" -> "ln"
      [] pattern = "^location$" -> "location"
      [] pattern = "^m\\.r\\.n\\.?$" -> "m\\r\\n\\?"
      [] pattern = "^mrn$" -> "mrn"
      [] pattern = "^pca confirmed" -> "pcaconfirmed"
      [] pattern = "^percent$" -> "percent"
      [] pattern = "^points$" -> "points"
      [] pattern = "^race$" -> "race"
      [] pattern = "^reason for visit$" -> "reasonforvisit"
      [] pattern = "age.*group" -> "agegroup"
      [] pattern = "age.*range" -> "agerange"
      [] pattern = "cancer.*confirmed" -> "cancerconfirmed"
      [] pattern = "chief.*complaint" -> "chiefcomplaint"
      [] pattern = "date.*service" -> "dateservice"
      [] pattern = "family.*history" -> "familyhistory"
      [] pattern = "family.*hx" -> "familyhx"
      [] pattern = "family.*name" -> "familyname"
      [] pattern = "first.*name" -> "firstname"
      [] pattern = "given.*name" -> "givenname"
      [] pattern = "gleason.*grade" -> "gleasongrade"
      [] pattern = "last.*name" -> "lastname"
      [] pattern = "medical.*record" -> "medicalrecord"
      [] pattern = "patient.*id" -> "patientid"
      [] pattern = "patient.*number" -> "patientnumber"
      [] pattern = "pca.*confirmed" -> "pcaconfirmed"
      [] pattern = "presenting.*problem" -> "presentingproblem"
      [] pattern = "prostate.*cancer" -> "prostatecancer"
      [] pattern = "reason.*visit" -> "reasonvisit"
      [] pattern = "risk.*category" -> "riskcategory"
      [] pattern = "service.*date" -> "servicedate"
      [] pattern = "total.*points" -> "totalpoints"
      [] pattern = "visit.*date" -> "visitdate"
      [] OTHER -> pattern

\* len(normalized)
StrLen(s) ==
    CASE s = "category grade" -> 14
      [] s = "dos" -> 3
      [] s = "first name" -> 10
      [] s = "last name" -> 9
      [] s = "mrn" -> 3
      [] s = "note" -> 4
      [] s = "patient id" -> 10
      [] s = "points" -> 6
      [] s = "pts" -> 3
      [] s = "risk score" -> 10
      [] OTHER -> 0

\* re.search(pattern, s, re.IGNORECASE) on the texts of the model: pattern,
\* text and the length of the match; a pair not listed has no match
SearchTable == {
    <<"First Name", "First Name", 10>>,
    <<"Last Name", "Last Name", 9>>,
    <<"MRN", "MRN", 3>>,
    <<"^first name$", "first name", 10>>,
    <<"^last name$", "last name", 9>>,
    <<"^mrn$", "mrn", 3>>,
    <<"^points$", "points", 6>>,
    <<"cat", "category grade", 3>>,
    <<"category", "category grade", 8>>,
    <<"dos", "dos", 3>>,
    <<"first.*name", "First Name", 10>>,
    <<"first.*name", "first name", 10>>,
    <<"grade", "category grade", 5>>,
    <<"last.*name", "Last Name", 9>>,
    <<"last.*name", "last name", 9>>,
    <<"mrn", "MRN", 3>>,
    <<"patient.*id", "Patient ID", 10>>,
    <<"patient.*id", "patient id", 10>>,
    <<"points", "points", 6>>,
    <<"score", "risk score", 5>> }

\* re.match(f"^{pattern}$", normalized, re.IGNORECASE): the pairs that match
FullMatchTable == {
    <<"^first name$", "first name">>,
    <<"^last name$", "last name">>,
    <<"^mrn$", "mrn">>,
    <<"^points$", "points">>,
    <<"dos", "dos">>,
    <<"first.*name", "first name">>,
    <<"last.*name", "last name">>,
    <<"patient.*id", "patient id">>,
    <<"points", "points">> }

\* critical_fields of suggest_column_mappings, in dict order
critical_fields == <<
    [field |-> "mrn", patterns |-> <<"MRN", "M.R.N.", "mrn", "medical.*record", "patient.*id", "patient.*number">>],
    [field |-> "first_name", patterns |-> <<"FN", "F.N.", "fn", "First Name", "FirstName", "first.*name", "fname", "given.*name">>],
    [field |-> "last_name", patterns |-> <<"LN", "L.N.", "ln", "Last Name", "LastName", "last.*name", "lname", "surname", "family.*name">>] >>

\* FIELD_PATTERNS, in dict order
FIELD_PATTERNS == <<
    [field |-> "date_of_service",
     patterns |-> <<"date.*service", "dos", "service.*date", "visit.*date", "^date of service$">>],
    [field |-> "location",
     patterns |-> <<"location", "loc", "site", "facility", "^location$">>],
    [field |-> "mrn",
     patterns |-> <<"^mrn$", "^m\\.r\\.n\\.?$", "medical.*record", "patient.*id", "patient.*number">>],
    [field |-> "first_name",
     patterns |-> <<"^fn$", "^first name$", "^firstname$", "first.*name", "fname", "given.*name">>],
    [field |-> "last_name",
     patterns |-> <<"^ln$", "^last name$", "^lastname$", "last.*name", "lname", "surname", "family.*name">>],
    [field |-> "reason_for_visit",
     patterns |-> <<"reason.*visit", "chief.*complaint", "presenting.*problem", "^reason for visit$">>],
    [field |-> "points",
     patterns |-> <<"^points$", "points", "score", "total.*points">>],
    [field |-> "percent",
     patterns |-> <<"^percent$", "percent", "percentage", "%", "pct">>],
    [field |-> "category",
     patterns |-> <<"^category$", "category", "cat", "risk.*category">>],
    [field |-> "pca_confirmed",
     patterns |-> <<"pca.*confirmed", "prostate.*cancer", "cancer.*confirmed", "^pca confirmed">>],
    [field |-> "gleason_grade",
     patterns |-> <<"^gg$", "^gleason$", "gleason", "gg", "gleason.*grade", "grade">>],
    [field |-> "age_group",
     patterns |-> <<"age.*group", "age.*range", "^age group$">>],
    [field |-> "family_history",
     patterns |-> <<"^fh$", "family.*history", "fh", "fhx", "family.*hx", "^fh of prostate$">>],
    [field |-> "race",
     patterns |-> <<"^race$", "race", "ethnicity", "racial">>],
    [field |-> "genetic_mutation",
     patterns |-> <<"genetic", "mutation", "gene", "brca", "^genetic risk$", "^genetic$">>] >>

\* scores are kept in units of 1/ScoreScale
ScoreScale == 10000
ExactScore == 10000
NearScore == 9500
PartialCap == 9000
CriticalThreshold == 5000
Threshold == 3000
LowThreshold == 1000

LowThresholdFields == {"mrn", "first_name", "last_name", "date_of_service", "location"}

\* len(match.group()) of re.search, 0 for no match
ReSearchLen(pattern, s) ==
    LET hits == {t \in SearchTable : t[1] = pattern /\ t[2] = s}
    IN IF hits = {} THEN 0 ELSE (CHOOSE t \in hits : TRUE)[3]

ReFullMatch(pattern, s) == <<pattern, s>> \in FullMatchTable

\* the score of one pattern in calculate_match_score
PatternScore(pattern, normalized) ==
    IF ReFullMatch(pattern, normalized) THEN ExactScore
    ELSE IF normalized = PatternStripped(pattern) THEN NearScore
    ELSE IF ReSearchLen(pattern, normalized) > 0
    THEN Min({(ReSearchLen(pattern, normalized) * ScoreScale) \div Max({StrLen(normalized), 1}),
              PartialCap})
    ELSE 0

\* calculate_match_score: the best pattern score, and 1.0 when the name
\* without separators equals a pattern without its regex signs
calculate_match_score(column_name, patterns) ==
    LET normalized == normalize_column_name(column_name)
    IN IF normalized = "" THEN 0
       ELSE Max({0}
                \cup {PatternScore(patterns[k], normalized) : k \in DOMAIN patterns}
                \cup {ExactScore : k \in {j \in DOMAIN patterns :
                                     NormalizedClean(normalized) = PatternCompact(patterns[j])}})

\* dict.items(): insertion order, whatever the hash seed of the process
ItemsHashed(d, hash_seed) ==
    IF hash_seed = 0 THEN d ELSE [k \in DOMAIN d |-> d[Len(d) + 1 - k]]

Items(d, hash_seed) == d

\* "col in used_columns" of the three column loops, left out
AvailableUnchecked(col, used_columns) == TRUE

Available(col, used_columns) == col \notin used_columns

\* best_match = None, best_score = 0.0
NoBest == [match |-> NULL, score |-> 0]

\* the pattern loop of step 1 for one column: an exact match takes the
\* column and leaves the loop, a regex hit takes it at 0.95 if that is more
RECURSIVE CriticalPatterns(_, _, _, _)
CriticalPatterns(best, col, possible_patterns, k) ==
    IF k > Len(possible_patterns) THEN best
    ELSE LET col_clean == ColClean(col)
             pattern_clean == PatternClean(possible_patterns[k])
         IN IF \/ Compact(col_clean) = Compact(pattern_clean)
               \/ Upper(col_clean) = Upper(pattern_clean)
            THEN [match |-> col, score |-> ExactScore]
            ELSE CriticalPatterns(
                    IF ReSearchLen(possible_patterns[k], col_clean) > 0 /\ NearScore > best.score
                    THEN [match |-> col, score |-> NearScore] ELSE best,
                    col, possible_patterns, k + 1)

\* one column of step 1: the pattern loop, then the field's own name
CriticalColumn(best, col, field_name, possible_patterns) ==
    LET scanned == CriticalPatterns(best, col, possible_patterns, 1)
    IN IF Compact(ColClean(col)) = Compact(field_name) /\ ExactScore > scanned.score
       THEN [match |-> col, score |-> ExactScore]
       ELSE scanned

RECURSIVE CriticalColumns(_, _, _, _, _, _)
CriticalColumns(best, csv_columns, used_columns, field_name, possible_patterns, n) ==
    IF n > Len(csv_columns) THEN best
    ELSE CriticalColumns(
            IF Available(csv_columns[n], used_columns)
            THEN CriticalColumn(best, csv_columns[n], field_name, possible_patterns)
            ELSE best,
            csv_columns, used_columns, field_name, possible_patterns, n + 1)

\* the column loop of step 3: the first column with the strictly best score
RECURSIVE ScoredColumns(_, _, _, _, _)
ScoredColumns(best, csv_columns, used_columns, patterns, n) ==
    IF n > Len(csv_columns) THEN best
    ELSE LET score == calculate_match_score(ColClean(csv_columns[n]), patterns)
         IN ScoredColumns(
               IF Available(csv_columns[n], used_columns) /\ score > best.score
               THEN [match |-> csv_columns[n], score |-> score] ELSE best,
               csv_columns, used_columns, patterns, n + 1)

\* suggestions[field_name] = (best_match, best_score); used_columns.add
Assign(st, field_name, col, score) ==
    [suggestions |-> (field_name :> <<col, score>>) @@ st.suggestions,
     used_columns |-> st.used_columns \cup {col}]

\* "if best_match and best_score > threshold"
AssignBest(st, field_name, best, threshold) ==
    IF best.match # NULL /\ best.match # "" /\ best.score > threshold
    THEN Assign(st, field_name, best.match, best.score)
    ELSE st

Skipped(st, existing_mapping, field_name) ==
    field_name \in DOMAIN existing_mapping \/ field_name \in DOMAIN st.suggestions

\* step 1: the critical fields
RECURSIVE MatchCritical(_, _, _, _, _)
MatchCritical(st, fields, csv_columns, existing_mapping, k) ==
    IF k > Len(fields) THEN st
    ELSE IF Skipped(st, existing_mapping, fields[k].field)
    THEN MatchCritical(st, fields, csv_columns, existing_mapping, k + 1)
    ELSE LET f == fields[k]
             best == CriticalColumns(NoBest, csv_columns, st.used_columns,
                                     f.field, f.patterns, 1)
         IN MatchCritical(AssignBest(st, f.field, best, CriticalThreshold),
                          fields, csv_columns, existing_mapping, k + 1)

\* step 2: the first free column named like the field
RECURSIVE MatchByName(_, _, _, _, _)
MatchByName(st, fields, csv_columns, existing_mapping, k) ==
    IF k > Len(fields) THEN st
    ELSE IF Skipped(st, existing_mapping, fields[k].field)
    THEN MatchByName(st, fields, csv_columns, existing_mapping, k + 1)
    ELSE LET f == fields[k]
             hits == {n \in DOMAIN csv_columns :
                         /\ Available(csv_columns[n], st.used_columns)
                         /\ Compact(f.field) = Compact(ColClean(csv_columns[n]))}
         IN MatchByName(
               IF hits = {} THEN st
               ELSE Assign(st, f.field, csv_columns[Min(hits)], ExactScore),
               fields, csv_columns, existing_mapping, k + 1)

\* step 3: the best scored free column, if over the field's threshold
RECURSIVE MatchByPattern(_, _, _, _, _)
MatchByPattern(st, fields, csv_columns, existing_mapping, k) ==
    IF k > Len(fields) THEN st
    ELSE IF Skipped(st, existing_mapping, fields[k].field)
    THEN MatchByPattern(st, fields, csv_columns, existing_mapping, k + 1)
    ELSE LET f == fields[k]
             best == ScoredColumns(NoBest, csv_columns, st.used_columns, f.patterns, 1)
             threshold == IF f.field \in LowThresholdFields THEN LowThreshold ELSE Threshold
         IN MatchByPattern(AssignBest(st, f.field, best, threshold),
                           fields, csv_columns, existing_mapping, k + 1)

\* suggest_column_mappings: field -> (column, score).  hash_seed is the hash
\* randomisation of the process that serves the call; the source's third
\* parameter, data_type, is not read
suggest_column_mappings(csv_columns, existing_mapping, hash_seed) ==
    LET st0 == [suggestions |-> EmptyMap, used_columns |-> Range(existing_mapping)]
        st1 == MatchCritical(st0, Items(critical_fields, hash_seed),
                             csv_columns, existing_mapping, 1)
        st2 == MatchByName(st1, Items(FIELD_PATTERNS, hash_seed),
                           csv_columns, existing_mapping, 1)
        st3 == MatchByPattern(st2, Items(FIELD_PATTERNS, hash_seed),
                              csv_columns, existing_mapping, 1)
    IN st3.suggestions

\* auto_map_columns: every suggestion with a score over 0; min_confidence is
\* a parameter the body does not read
auto_map_columns(csv_columns, existing_mapping, min_confidence, hash_seed) ==
    LET suggestions == suggest_column_mappings(csv_columns, existing_mapping, hash_seed)
    IN [f \in {g \in DOMAIN suggestions : suggestions[g][2] > 0} |-> suggestions[f][1]]

\* ------------------------------------------------------------------ upload-file
\* pandas.read_csv: the texts it reads as NaN
NaTexts == {"", "N/A"}

\* a column whose cells all parse as integers gets a numeric dtype
NumericColumn(file, c) ==
    \A i \in 1..Len(file.rows) : file.rows[i][c] \in NaTexts \cup IntTexts

HasNa(file, c) == \E i \in 1..Len(file.rows) : file.rows[i][c] \in NaTexts

IntRepr(s) ==
    CASE s = "0" -> "int:0"
      [] s = "3" -> "int:3"
      [] s = "7" -> "int:7"
      [] OTHER -> s

\* the value of a cell in df.to_dict('records'): NaN, an int (a float when
\* the column holds a NaN) or the text
PandasValue(file, c, cell) ==
    IF cell \in NaTexts THEN NAN
    ELSE IF NumericColumn(file, c)
    THEN IF HasNa(file, c) THEN ParseFloat(cell) ELSE IntRepr(cell)
    ELSE cell

PandasRow(file, i) == [c \in Range(file.columns) |-> PandasValue(file, c, file.rows[i][c])]

\* Python truthiness of a pandas cell: NaN is truthy, 0 and 0.0 are not
PyTruthy(v) == v \notin {NULL, "", "int:0", "0.0"}

\* str(v) for a pandas cell
PyStr(v) ==
    CASE v = "int:0" -> "0"
      [] v = "int:3" -> "3"
      [] v = "int:7" -> "7"
      [] OTHER -> v

\* float(v) for a pandas cell
PyFloat(v) ==
    CASE v = "int:0" -> "0.0"
      [] v = "int:3" -> "3.0"
      [] v = "int:7" -> "7.0"
      [] v \in {"0.0", "3.0", "7.0"} -> v
      [] OTHER -> ParseFloat(v)

\* NaN becomes None in raw_data
RawData(prow) == [c \in DOMAIN prow |-> IF prow[c] = NAN THEN NULL ELSE prow[c]]

\* min_confidence as upload-file passes it
UploadMinConfidence == 7000

\* the column a canonical field is read from: the auto-mapped one, else a
\* column named like the field; "" when there is none
UploadColumn(auto_mapped, columns, field) ==
    IF field \in DOMAIN auto_mapped THEN auto_mapped[field]
    ELSE IF field \in Range(columns) THEN field ELSE ""

\* the type conversion of upload-file for a non-NaN cell
UploadConvert(field, value) ==
    IF field \in numeric_float_fields
    THEN IF PyTruthy(value) THEN PyFloat(value) ELSE NULL
    ELSE IF field \in boolean_fields
    THEN IF PyTruthy(value) THEN "True" ELSE NULL
    ELSE IF PyTruthy(value) THEN Strip(PyStr(value)) ELSE NULL

mrn_columns(columns) ==
    SelectSeq(columns, LAMBDA c : Lower(c) \in {"mrn", "medical_record_number", "patient_id"})

\* mrn_value of a row: the stripped text of the first mrn column's cell,
\* None when there is no such column or the cell is falsy
MrnValue(columns, prow) ==
    IF Len(mrn_columns(columns)) > 0 /\ PyTruthy(prow[mrn_columns(columns)[1]])
    THEN Strip(PyStr(prow[mrn_columns(columns)[1]]))
    ELSE NULL

RowKey(row_idx) ==
    CASE row_idx = 1 -> "row_1"
      [] row_idx = 2 -> "row_2"
      [] OTHER -> "row_n"

\* patient_key of a row: the mrn, else the row's patient_key cell, else
\* row_<ordinal>
UploadPatientKey(columns, prow, row_idx) ==
    IF Truthy(MrnValue(columns, prow)) THEN MrnValue(columns, prow)
    ELSE IF "patient_key" \in Range(columns) /\ PyTruthy(prow["patient_key"])
    THEN Strip(PyStr(prow["patient_key"]))
    ELSE RowKey(row_idx)

\* first by mrn in every dataset, then by patient_key in the default dataset
UploadResolve(db, match_by_mrn, mrn_value, patient_key) ==
    LET by_mrn == IF match_by_mrn /\ Truthy(mrn_value)
                  THEN FindByMrnAnyDataset(db, mrn_value) ELSE 0
    IN IF by_mrn # 0 THEN by_mrn ELSE FindByKey(db, DefaultId, patient_key)

\* the canonical values of a row
UploadValues(auto_mapped, columns, prow) ==
    LET col(f) == UploadColumn(auto_mapped, columns, f)
        mrn_value == MrnValue(columns, prow)
    IN [f \in all_canonical_fields |->
          IF f = "mrn" /\ Truthy(mrn_value) THEN mrn_value
          ELSE IF col(f) \in DOMAIN prow /\ prow[col(f)] # NAN
          THEN UploadConvert(f, prow[col(f)])
          ELSE NULL]

\* extra_fields_data: the columns no canonical field was read from
UploadExtra(auto_mapped, columns, prow) ==
    LET mapped_columns == {UploadColumn(auto_mapped, columns, f) : f \in all_canonical_fields}
        rest == {c \in Range(columns) : c \notin mapped_columns /\ prow[c] # NULL}
    IN [c \in rest |-> IF prow[c] = NAN THEN NULL ELSE prow[c]]

\* the update of an existing record: every non-None canonical value is
\* written, raw is replaced.  extra_fields: existing_extra is the loaded
\* dict itself unless it is None or {}, it is changed in place and assigned
\* back, which the session does not see as a change of the attribute, so
\* only a record with no extra fields gets the row's
UploadUpdate(rec, values, extra, raw_data) ==
    [k \in DOMAIN rec |->
        IF k \in all_canonical_fields THEN (IF values[k] # NULL THEN values[k] ELSE rec[k])
        ELSE IF k = "raw" THEN raw_data
        ELSE IF k = "extra_fields" /\ extra # EmptyMap /\ rec[k] = EmptyMap THEN extra
        ELSE rec[k]]

\* the session commits after every CommitEvery rows
CommitEvery == 100

UploadRow(st, file, auto_mapped, match_by_mrn, row_idx) ==
    LET prow == PandasRow(file, row_idx)
        mrn_value == MrnValue(file.columns, prow)
        patient_key == UploadPatientKey(file.columns, prow, row_idx)
        existing == UploadResolve(st.db, match_by_mrn, mrn_value, patient_key)
        values == UploadValues(auto_mapped, file.columns, prow)
        extra == UploadExtra(auto_mapped, file.columns, prow)
        new == values @@ [dataset_id |-> DefaultId, patient_key |-> patient_key,
                          raw |-> RawData(prow), extra_fields |-> extra]
        st1 == IF existing # 0
               THEN [st EXCEPT !.objs[existing] = UploadUpdate(@, values, extra, RawData(prow)),
                               !.updated = @ + 1,
                               !.resolved = Append(@, existing)]
               ELSE [st EXCEPT !.pending = Append(@, new), !.created = @ + 1,
                               !.resolved = Append(@, 0)]
    IN IF row_idx % CommitEvery = 0
       THEN [st1 EXCEPT !.db = st1.objs \o st1.pending,
                        !.objs = st1.objs \o st1.pending,
                        !.pending = << >>]
       ELSE st1

RECURSIVE UploadRows(_, _, _, _, _)
UploadRows(st, file, auto_mapped, match_by_mrn, i) ==
    IF i > Len(file.rows) THEN st
    ELSE UploadRows(UploadRow(st, file, auto_mapped, match_by_mrn, i),
                    file, auto_mapped, match_by_mrn, i + 1)

\* POST /patients/upload-file: gets or creates the default dataset, upserts
\* the rows, commits, and then fails building the response (the name
\* suggestions is not defined)
upload_file_to_update_patients(f, match_by_mrn) ==
    LET file == FileById(f)
        st0 == [db |-> patients, objs |-> patients, pending |-> << >>,
                created |-> 0, updated |-> 0, resolved |-> << >>]
    \* auto_mapped is computed once, from the header row, before the row loop
    IN \E auto_mapped \in {auto_map_columns(file.columns, EmptyMap, UploadMinConfidence, 0)} :
       \E st \in {UploadRows(st0, file, auto_mapped, match_by_mrn, 1)} :
       /\ Len(st.objs) + Len(st.pending) <= MaxPatients
       /\ UNCHANGED engine
       /\ before' = Snapshot
       /\ datasets' = IF DefaultId \in DOMAIN datasets THEN datasets
                      ELSE (DefaultId :> [name |-> DefaultName, file |-> NoFile,
                                          column_map |-> EmptyMap]) @@ datasets
       /\ patients' = [n \in 1..(Len(st.objs) + Len(st.pending)) |->
                          Persist((st.objs \o st.pending)[n])]
       /\ resp' = [NoResp EXCEPT !.op = "upload_file", !.dataset_id = DefaultId,
                                 !.status = 500, !.file = f,
                                 !.patients_created = st.created,
                                 !.patients_updated = st.updated,
                                 !.resolved = st.resolved]

\* the requests of the model: two valid maps, one with a custom-named
\* extra field, one that maps the boolean field and leaves the header of
\* mrn empty, one that names a header the file lacks and an empty one
MapRequests == {
    [column_map |-> ("mrn" :> "MRN") @@ ("points" :> "Points"),
     create_extra_fields |-> EmptyMap],
    [column_map |-> ("mrn" :> "MRN"),
     create_extra_fields |-> ("Note" :> "comment")],
    [column_map |-> ("points" :> "Points") @@ ("pca_confirmed" :> "Note") @@ ("mrn" :> ""),
     create_extra_fields |-> EmptyMap],
    [column_map |-> ("points" :> "Pts"), create_extra_fields |-> EmptyMap],
    [column_map |-> EmptyMap, create_extra_fields |-> EmptyMap] }

\* a file of two rows that carry one identifier
RepeatedMrnFile == Len(FileCatalog) + 1

\* the files sent to upload-file: the versions with data rows, every row
\* as long as the header, and the file with a repeated identifier
UploadFiles == {f \in FileIds :
                   /\ Len(FileCatalog[f].rows) > 0
                   /\ \A i \in 1..Len(FileCatalog[f].rows) :
                          RESTKEY \notin DOMAIN FileCatalog[f].rows[i]}
               \cup {RepeatedMrnFile}

\* the records create_patient is called with
PatientInputs == {
    [mrn |-> "M1", points |-> "0.0"],
    [mrn |-> "M2", points |-> NULL] }

Next ==
    \/ \E f \in FileIds : upload_dataset(f)
    \/ \E d \in UploadedIds, key \in {"1", "2"}, p \in PatientInputs :
          create_patient(d, key, p.mrn, p.points)
    \/ \E d \in UploadedIds, req \in MapRequests : map_columns(d, req)
    \/ \E d \in UploadedIds, f \in FileIds : stored_file_replaced(d, f)
    \/ \E d \in UploadedIds : reprocess_update(d)
    \/ \E d \in UploadedIds : add_unmapped_to_extra_fields(d)
    \/ \E d \in UploadedIds : reprocess_check(d)
    \/ \E d \in UploadedIds \cup {DefaultId} : delete_dataset(d)
    \/ \E bulk_delete_raises \in BOOLEAN : clear_all_data(bulk_delete_raises)
    \/ \E f \in UploadFiles, match_by_mrn \in BOOLEAN :
          upload_file_to_update_patients(f, match_by_mrn)

Spec == Init /\ [][Next]_vars

\* ------------------------------------------------------------------ properties
\* a canonical value that counts as populated: not None and not a blank
\* str; 0.0 and False are populated
Populated(f, v) == v # NULL /\ (f \in string_fields => Strip(v) # "")

RespFile == FileById(resp.file)

\* C1: apply-mapping and backfill leave every canonical field that was
\* populated before the operation with exactly the value it had, whatever
\* the row supplies
C1_PopulatedFieldsKept ==
    resp.op \in {"map_columns", "reprocess_update"} =>
        \A i \in 1..Len(before.patients) : \A f \in all_canonical_fields :
            Populated(f, before.patients[i][f]) => patients[i][f] = before.patients[i][f]

\* a backfill met a record whose points are 0.0 and whose row supplies
\* another parsable number, and left the 0.0
C1_Witness ==
    /\ resp.op = "reprocess_update" /\ resp.status = 200
    /\ "points" \in DOMAIN resp.column_map
    /\ \E i \in 1..Len(before.patients) :
         LET r == RowOfRecord(before.patients, resp.dataset_id, RespFile.rows, i)
         IN /\ r # 0
            /\ before.patients[i].points = "0.0"
            /\ ParseFloat(RespFile.rows[r][resp.column_map["points"]]) \notin {NULL, "0.0"}
            /\ patients[i].points = "0.0"

\* --- apply-mapping passes, as the response and the store before it show them
\* the request passed validation and the row loop was entered
MapPassed == resp.op = "map_columns" /\ resp.status # 400

\* the ordinals of the rows of the file the operation read
RespRows == IF resp.file = NoFile THEN {} ELSE 1..Len(RespFile.rows)

\* the canonical values the pass's column map reads from row i
RowData(i) == CandidateValues(resp.column_map, RespFile.rows[i])

\* the stored record row i belongs to by the lookup of the handler, against
\* the store as it was before the pass (0: none)
RowTarget(i) ==
    ResolveExisting(before.patients, resp.dataset_id, ToString(i), RowData(i).mrn)

\* the headers of row i that are neither mapped nor given a custom name and
\* hold a cell
UnmappedHeaders(i) ==
    {c \in DOMAIN RespFile.rows[i] :
        /\ c \notin Range(resp.column_map) \cup DOMAIN resp.create_extra_fields
        /\ RespFile.rows[i][c] # NULL}

\* a record a first pass with column map cm has nothing left to fill in
FullyPopulated(rec, cm) ==
    /\ \A f \in DOMAIN cm : Populated(f, rec[f])
    /\ rec.extra_fields # EmptyMap

\* the canonical fields of a record
Canonical(rec) == [f \in all_canonical_fields |-> rec[f]]

\* C2: an apply-mapping pass over a file each row of which already has its
\* record, with every mapped field and the extension map populated,
\* succeeds, creates no record, reports no updated record and leaves the
\* canonical fields and the extension map of every record as they were
C2_SecondPassChangesNothing ==
    (/\ MapPassed
     /\ \A i \in RespRows :
          /\ RowTarget(i) # 0
          /\ FullyPopulated(before.patients[RowTarget(i)], resp.column_map))
    => /\ resp.status = 200
       /\ resp.patients_created = 0
       /\ resp.patients_updated = 0
       /\ Len(patients) = Len(before.patients)
       /\ \A n \in 1..Len(patients) :
             /\ Canonical(patients[n]) = Canonical(before.patients[n])
             /\ patients[n].extra_fields = before.patients[n].extra_fields

\* C3: when an apply-mapping row (the only row of the pass that belongs to
\* its record) meets a record whose points are null and the row's cell
\* parses, the record holds the parsed value after the pass, the pass counts
\* an update, and the other populated fields of the record are as before
C3_NullPointsFilled ==
    \A i \in RespRows :
        LET e == RowTarget(i)
        IN (/\ MapPassed
            /\ e # 0
            /\ \A j \in RespRows \ {i} : RowTarget(j) # e
            /\ before.patients[e].points = NULL
            /\ RowData(i).points # NULL)
           => /\ patients[e].points = RowData(i).points
              /\ resp.patients_updated >= 1
              /\ \A f \in all_canonical_fields :
                    Populated(f, before.patients[e][f])
                        => patients[e][f] = before.patients[e][f]

\* the records of dataset d with key k that the operation added
CreatedFor(d, k) ==
    {n \in (Len(before.patients) + 1)..Len(patients) :
        patients[n].dataset_id = d /\ patients[n].patient_key = k}

\* C4: an apply-mapping row with no record of its own and an unparsable
\* cell for points does not fail the pass: the pass succeeds and creates
\* exactly one record for the row, with points null
C4_UnparsableCellCreatesRecord ==
    \A i \in RespRows :
        (/\ MapPassed
         /\ "points" \in DOMAIN resp.column_map
         /\ RowTarget(i) = 0
         /\ Strip(RespFile.rows[i][resp.column_map["points"]]) # ""
         /\ ParseFloat(RespFile.rows[i][resp.column_map["points"]]) = NULL)
        => /\ resp.status = 200
           /\ Cardinality(CreatedFor(resp.dataset_id, ToString(i))) = 1
           /\ \A n \in CreatedFor(resp.dataset_id, ToString(i)) : patients[n].points = NULL

\* C5: an apply-mapping row with a non-empty mapped mrn, in a dataset that
\* holds a record with that mrn and another record with the row's ordinal
\* as key, resolves to the record with the mrn
C5_MrnLookupFirst ==
    \A i \in RespRows :
        LET m == RowData(i).mrn
            with_mrn == {n \in 1..Len(before.patients) :
                            /\ before.patients[n].dataset_id = resp.dataset_id
                            /\ before.patients[n].mrn = m}
            by_key == FindByKey(before.patients, resp.dataset_id, ToString(i))
        IN (MapPassed /\ Truthy(m) /\ with_mrn # {} /\ by_key # 0 /\ by_key \notin with_mrn)
           => Len(resp.resolved) >= i /\ resp.resolved[i] \in with_mrn

\* C6: after an apply-mapping pass a record that a row resolved to and that
\* had a non-empty extension map has every key it had and every unmapped
\* header of the row that holds a cell
C6_ExtensionMapMerged ==
    \A i \in RespRows :
        LET e == RowTarget(i)
        IN (MapPassed /\ e # 0 /\ before.patients[e].extra_fields # EmptyMap)
           => (DOMAIN before.patients[e].extra_fields) \cup UnmappedHeaders(i)
                  \subseteq DOMAIN patients[e].extra_fields

\* --- ingestion passes of either route
\* the row as the pass parsed it: the csv.DictReader row in apply-mapping,
\* the pandas record with NaN as None in upload-file
ParsedRow(i) ==
    IF resp.op = "upload_file" THEN RawData(PandasRow(RespFile, i)) ELSE RespFile.rows[i]

\* the stored record row i resolved to (0: none)
IngestTarget(i) ==
    IF resp.op = "upload_file" THEN resp.resolved[i] ELSE RowTarget(i)

\* C7: after an apply-mapping pass or an upload-file pass, a stored record
\* that rows of the pass resolved to has as raw snapshot the last of those
\* rows as parsed
C7_RawSnapshotReplaced ==
    (MapPassed \/ resp.op = "upload_file") =>
        \A e \in 1..Len(before.patients) :
            LET rs == {i \in RespRows : IngestTarget(i) = e}
            IN rs # {} => patients[e].raw = ParsedRow(Max(rs))

\* C8: no record of an uploaded dataset has an extension-map key that is a
\* header in the value set of the dataset's stored column map
C8_NoMappedHeaderInExtensionMap ==
    \A n \in 1..Len(patients) :
        patients[n].dataset_id \in UploadedIds
        => (DOMAIN patients[n].extra_fields)
               \cap Range(datasets[patients[n].dataset_id].column_map) = {}

MapValidated ==
    /\ resp.op = "map_columns"
    /\ resp.column_map # EmptyMap
    /\ resp.file # NoFile
    /\ InvalidColumns(resp.column_map, RespFile.columns) = {}

\* the rows of the pass that resolve to no record and whose new record
\* fails construction
FailingRows ==
    IF ~MapValidated THEN {}
    ELSE {i \in RespRows :
            /\ RESTKEY \in DOMAIN RespFile.rows[i]
            /\ FindByKey(before.patients, resp.dataset_id, ToString(i)) = 0}

\* C11: when the construction of a new record fails at a row of an
\* apply-mapping pass, the pass stops there and reports that row's 1-based
\* index, and nothing of the pass is persisted: the patients table and the
\* dataset's stored column map are as before the pass.
C11_CreationFailureAbortsPass ==
    FailingRows # {} =>
        /\ resp.status = 400
        /\ resp.error_row = Min(FailingRows)
        /\ patients = before.patients
        /\ datasets = before.datasets

\* the last request was an apply-mapping on a readable file with a
\* non-empty column map
MapOnFile == resp.op = "map_columns" /\ resp.column_map # EmptyMap /\ resp.file # NoFile

\* the request was turned down before the row loop and nothing changed
RejectedBeforeRows ==
    /\ resp.status = 400
    /\ resp.error_row = 0
    /\ resp.resolved = << >>
    /\ patients = before.patients
    /\ datasets = before.datasets

\* C12 as stated: if any value of the supplied column map is not a header
\* of the dataset's file, the request is rejected before any row is
\* processed and neither a record nor the stored column map changes.
C12_AnyAbsentValueRejected ==
    (MapOnFile /\ \E f \in DOMAIN resp.column_map :
                     resp.column_map[f] \notin Range(RespFile.columns))
    => RejectedBeforeRows

\* C12, amended: if any non-empty value of the supplied column map is not
\* a header of the dataset's file, the request is rejected before any row
\* is processed and neither a record nor the stored column map changes; an
\* empty value is passed over and leaves its field unmapped.
C12_AbsentHeaderRejected ==
    (MapOnFile /\ \E f \in DOMAIN resp.column_map :
                     /\ resp.column_map[f] # ""
                     /\ resp.column_map[f] \notin Range(RespFile.columns))
    => RejectedBeforeRows

\* a map naming the absent header Pts was rejected for a dataset that has
\* records and a file with rows
C12_Witness ==
    /\ MapOnFile
    /\ "Pts" \in Range(resp.column_map)
    /\ RespRows # {}
    /\ PatientCount(resp.dataset_id) > 0
    /\ RejectedBeforeRows

\* C13: after every successful apply-mapping pass the dataset's stored
\* column map equals the column map supplied to that pass, and a
\* reprocess-update that follows the pass on that dataset reads exactly
\* that map.
C13_StoredMapIsSuppliedMap ==
    [][/\ (resp'.op = "map_columns" /\ resp'.status = 200)
            => datasets'[resp'.dataset_id].column_map = resp'.column_map
       /\ (/\ resp.op = "map_columns" /\ resp.status = 200
           /\ resp'.op = "reprocess_update" /\ resp'.dataset_id = resp.dataset_id)
            => resp'.column_map = resp.column_map]_vars

\* a successful pass replaced a stored column map by a different one
C13_Witness ==
    /\ resp.op = "map_columns" /\ resp.status = 200
    /\ before.datasets[resp.dataset_id].column_map # EmptyMap
    /\ DOMAIN before.datasets[resp.dataset_id].column_map # DOMAIN resp.column_map
    /\ datasets[resp.dataset_id].column_map = resp.column_map

\* ------------------------------------------------------------------ matcher runs
\* A second specification: calls of the suggester and of the auto-mapper on
\* a header list and an existing mapping that Init draws.  resp holds the
\* call's inputs and what it returned; the tables stay empty.
MaxHeaders == 2
MaxRuns == 2

HeaderPool == {"Patient ID", "First Name", "Last Name", "DOS", "Pts", "MRN",
               "Risk Score", "Category Grade", "Last Name (LN)"}

ScenarioHeaders == <<"Patient ID", "First Name", "Last Name", "DOS", "Pts">>

\* the header lists: the scenario's, and every list of up to MaxHeaders
\* distinct headers of the pool
HeaderLists ==
    {ScenarioHeaders} \cup
    {s \in UNION {[1..n -> HeaderPool] : n \in 0..MaxHeaders} :
        \A i, j \in DOMAIN s : i # j => s[i] # s[j]}

ExistingMappings == {EmptyMap, ("mrn" :> "Patient ID"), ("location" :> "MRN"),
                     ("points" :> "Risk Score")}

HashSeeds == {0, 1}

\* min_confidence of the callers: 0.0 (suggest endpoint), 0.7 (upload-file
\* and the default), and a stricter one
MinConfidences == {0, 7000, 9500}

MatcherInit ==
    /\ engine = DefaultEngine
    /\ datasets = EmptyMap
    /\ patients = << >>
    /\ before = [datasets |-> EmptyMap, patients |-> << >>]
    /\ \E cols \in HeaderLists, em \in ExistingMappings :
          resp = [op |-> "none", csv_columns |-> cols, existing_mapping |-> em,
                  min_confidence |-> 0, suggestions |-> EmptyMap, previous |-> EmptyMap,
                  auto_mapped |-> EmptyMap, runs |-> 0, seeds |-> << >>]

\* GET /datasets/{id}/suggest-mappings: the suggestions and the auto-mapped
\* pairs for the file's headers and the stored column map
suggest_column_mappings_endpoint(hash_seed) ==
    /\ UNCHANGED engine
    /\ resp.runs < MaxRuns
    /\ resp' = [resp EXCEPT
          !.op = "suggest",
          !.previous = resp.suggestions,
          !.suggestions = suggest_column_mappings(resp.csv_columns, resp.existing_mapping,
                                                  hash_seed),
          !.auto_mapped = auto_map_columns(resp.csv_columns, resp.existing_mapping, 0,
                                           hash_seed),
          !.min_confidence = 0,
          !.runs = @ + 1,
          !.seeds = Append(@, hash_seed)]
    /\ UNCHANGED <<datasets, patients, before>>

\* a call of auto_map_columns with a minimum confidence
auto_map_columns_call(min_confidence, hash_seed) ==
    /\ UNCHANGED engine
    /\ resp' = [resp EXCEPT
          !.op = "auto_map",
          !.auto_mapped = auto_map_columns(resp.csv_columns, resp.existing_mapping,
                                           min_confidence, hash_seed),
          !.min_confidence = min_confidence]
    /\ UNCHANGED <<datasets, patients, before>>

MatcherNext ==
    \/ \E hash_seed \in HashSeeds : suggest_column_mappings_endpoint(hash_seed)
    \/ \E m \in MinConfidences, hash_seed \in HashSeeds : auto_map_columns_call(m, hash_seed)

SpecMatcher == MatcherInit /\ [][MatcherNext]_vars

\* the header a suggestion names, and its confidence
Column(suggestion) == suggestion[1]

Confidence(suggestion) == suggestion[2]

\* C14: in one run of suggest_column_mappings no header is the matched
\* header of two canonical fields, and no header that is a value of the
\* existing mapping is suggested for any field.
C14_HeadersExclusive ==
    resp.op = "suggest" =>
        /\ \A f, g \in DOMAIN resp.suggestions :
              f # g => Column(resp.suggestions[f]) # Column(resp.suggestions[g])
        /\ \A f \in DOMAIN resp.suggestions :
              Column(resp.suggestions[f]) \notin Range(resp.existing_mapping)

\* a run in which one header scores over the threshold for two fields and
\* went to one of them, and a header of the list that the existing mapping
\* holds was suggested for no field
C14_Witness ==
    /\ resp.op = "suggest"
    /\ "category" \in DOMAIN resp.suggestions
    /\ Column(resp.suggestions["category"]) = "Category Grade"
    /\ calculate_match_score("Category Grade", FIELD_PATTERNS[11].patterns) > Threshold
    /\ "gleason_grade" \notin DOMAIN resp.suggestions
    /\ "MRN" \in Range(resp.csv_columns) \cap Range(resp.existing_mapping)
    /\ "mrn" \notin DOMAIN resp.suggestions

CriticalNames == {"mrn", "first_name", "last_name"}

\* C15: a header whose normalized form equals the normalized name of a
\* critical field, with neither that field nor that header in the existing
\* mapping, is assigned by suggest_column_mappings to that field and to no
\* non-critical field.
C15_CriticalNameWins ==
    resp.op = "suggest" =>
        \A n \in DOMAIN resp.csv_columns : \A f \in CriticalNames :
            (/\ normalize_column_name(resp.csv_columns[n]) = normalize_column_name(f)
             /\ f \notin DOMAIN resp.existing_mapping
             /\ resp.csv_columns[n] \notin Range(resp.existing_mapping))
            => /\ f \in DOMAIN resp.suggestions
               /\ Column(resp.suggestions[f]) = resp.csv_columns[n]
               /\ \A g \in DOMAIN resp.suggestions \ CriticalNames :
                     Column(resp.suggestions[g]) # resp.csv_columns[n]

\* C16: for the headers Patient ID, First Name, Last Name, DOS, Pts and no
\* existing mapping the auto-mapper returns mrn -> Patient ID, first_name ->
\* First Name, last_name -> Last Name, date_of_service -> DOS and points ->
\* Pts, each with a confidence of at least 0.9.
C16_ScenarioMapped ==
    (/\ resp.op = "suggest"
     /\ resp.csv_columns = ScenarioHeaders
     /\ resp.existing_mapping = EmptyMap)
    => /\ DOMAIN resp.auto_mapped =
              {"mrn", "first_name", "last_name", "date_of_service", "points"}
       /\ resp.auto_mapped["mrn"] = "Patient ID"
       /\ resp.auto_mapped["first_name"] = "First Name"
       /\ resp.auto_mapped["last_name"] = "Last Name"
       /\ resp.auto_mapped["date_of_service"] = "DOS"
       /\ resp.auto_mapped["points"] = "Pts"
       /\ \A f \in DOMAIN resp.auto_mapped :
             Confidence(resp.suggestions[f]) >= PartialCap

\* C17: auto_map_columns called with a minimum confidence returns exactly
\* the suggester's pairs whose confidence meets the minimum (with the
\* minimum 0: those with a confidence over 0).
C17_MinimumConfidenceKept ==
    resp.op = "auto_map" =>
        LET suggestions == suggest_column_mappings(resp.csv_columns,
                                                   resp.existing_mapping, 0)
            kept == {f \in DOMAIN suggestions :
                        /\ Confidence(suggestions[f]) > 0
                        /\ Confidence(suggestions[f]) >= resp.min_confidence}
        IN /\ DOMAIN resp.auto_mapped = kept
           /\ \A f \in kept : resp.auto_mapped[f] = Column(suggestions[f])

CellTexts == {"7", "N/A", "", " ", "x", "yes", "Yes", " yes ", "true", "confirmed",
              "t", "y", "M1", " M1 "}

\* the column the field is mapped to, and the row that holds the cell there
CellColumn == "Note"

CellRow(cell) == Row("M9", "0", cell)

NullRecord ==
    [dataset_id |-> 1, patient_key |-> "1", mrn |-> NULL, points |-> NULL,
     pca_confirmed |-> NULL, raw |-> EmptyMap, extra_fields |-> EmptyMap]

CoercionInit ==
    /\ engine = DefaultEngine
    /\ datasets = EmptyMap
    /\ patients = << >>
    /\ before = [datasets |-> EmptyMap, patients |-> << >>]
    /\ \E field \in all_canonical_fields, cell \in CellTexts :
          resp = [op |-> "none", field |-> field, cell |-> cell, done |-> {},
                  candidate |-> NULL, created |-> NULL, backfilled |-> NULL]

\* apply-mapping: the candidate value of the field, and what a new record
\* made from it holds
coerce_on_create ==
    /\ UNCHANGED engine
    /\ "create" \notin resp.done
    /\ LET patient_data == CandidateValues((resp.field :> CellColumn), CellRow(resp.cell))
       IN resp' = [resp EXCEPT !.op = "create", !.done = @ \cup {"create"},
                               !.candidate = patient_data[resp.field],
                               !.created = Persist(patient_data)[resp.field]]
    /\ UNCHANGED <<datasets, patients, before>>

\* reprocess-update: what the record holds after the backfill of the cell
coerce_on_backfill ==
    /\ UNCHANGED engine
    /\ "backfill" \notin resp.done
    /\ resp' = [resp EXCEPT
          !.op = "backfill", !.done = @ \cup {"backfill"},
          !.backfilled = Persist(Backfill((resp.field :> CellColumn), CellRow(resp.cell),
                                          NullRecord))[resp.field]]
    /\ UNCHANGED <<datasets, patients, before>>

CoercionNext == coerce_on_create \/ coerce_on_backfill

SpecCoercion == CoercionInit /\ [][CoercionNext]_vars

\* C19: for every canonical field and every cell, the value apply-mapping
\* stores when it creates a record from the cell equals the value
\* reprocess-update stores when it backfills the cell into a null field.
C19_CoercionAgrees ==
    resp.done = {"create", "backfill"} => resp.created = resp.backfilled

\* C20: for a string-typed field the candidate value of apply-mapping is
\* the trimmed cell text, and null when the cell is empty or blank.
C20_StringTrimmedOrNull ==
    ("create" \in resp.done /\ resp.field \in string_fields)
    => resp.candidate = (IF Strip(resp.cell) = "" THEN NULL ELSE Strip(resp.cell))

\* the position of the first occurrence of x in a list
PositionIn(seq, x) == Min({k \in 1..Len(seq) : seq[k] = x})

\* C21: the unmapped-columns report of reprocess-check is the list of the
\* file's headers that are no value of the dataset's stored column map, each
\* once, in the order of the file
C21_UnmappedReportInFileOrder ==
    (resp.op = "reprocess_check" /\ resp.status = 200) =>
        LET u == resp.report.unmapped_columns
            cols == RespFile.columns
            cm == datasets[resp.dataset_id].column_map
        IN /\ Range(u) = Range(cols) \ Range(cm)
           /\ Len(u) = Cardinality({k \in 1..Len(cols) : cols[k] \notin Range(cm)})
           /\ \A i, j \in 1..Len(u) :
                  i < j => PositionIn(cols, u[i]) < PositionIn(cols, u[j])

\* a report with two unmapped headers, which come after a mapped one in the
\* file
C21_Witness ==
    /\ resp.op = "reprocess_check" /\ resp.status = 200
    /\ Len(resp.report.unmapped_columns) = 2
    /\ RespFile.columns[1] \in Range(datasets[resp.dataset_id].column_map)
    /\ resp.report.unmapped_columns[1] = RespFile.columns[2]

\* ------------------------------------------------------------------ sampling
\* reprocess_check and reprocess_update on a dataset whose file went through
\* a header-only version (which stored the column map) and now has up to
\* MaxSampleRows rows; its records were made by create_patient under the
\* keys "1".."n"
SampleMaps ==
    {req.column_map : req \in {q \in MapRequests :
        q.column_map # EmptyMap /\ InvalidColumns(q.column_map, Headers) = {}}}

SampleRecordCounts == {0, 1, 6, 21, MaxSampleRows}

\* which records already hold points: none, those of every third key (0.0),
\* all
SampleFills == {"none", "third", "all"}

SampleRecord(k, fill) ==
    [dataset_id |-> 1, patient_key |-> ToString(k), mrn |-> NULL,
     points |-> IF fill = "all" THEN "7.0"
                ELSE IF fill = "third" /\ k % 3 = 0 THEN "0.0" ELSE NULL,
     pca_confirmed |-> NULL, raw |-> EmptyMap, extra_fields |-> EmptyMap]

SampleInit ==
    \E f \in SampleFileIds, cm \in SampleMaps, n \in SampleRecordCounts, fill \in SampleFills :
        /\ engine = DefaultEngine
        /\ datasets = (1 :> [name |-> UploadName, file |-> f, column_map |-> cm])
        /\ patients = [k \in 1..n |-> SampleRecord(k, fill)]
        /\ resp = NoResp
        /\ before = [datasets |-> EmptyMap, patients |-> << >>]

SampleNext ==
    \/ \E d \in UploadedIds : reprocess_check(d)
    \/ \E d \in UploadedIds : reprocess_update(d)

SpecSample == SampleInit /\ [][SampleNext]_vars

\* the records of the checked dataset that have the ordinal key of row r
KeyedRecords(r) ==
    {i \in 1..Len(patients) :
        patients[i].dataset_id = resp.dataset_id /\ patients[i].patient_key = ToString(r)}

\* the cell of row r that the stored column map gives field f
MappedCell(r, f) ==
    IF resp.column_map[f] \in DOMAIN RespFile.rows[r]
    THEN RespFile.rows[r][resp.column_map[f]] ELSE NULL

\* (row r, field f) is missing.  trimmed: a cell or a stored str that is
\* blank after trimming counts as empty; otherwise only "" does
Counted(trimmed, r, f) ==
    /\ r <= SampledRows
    /\ \E i \in KeyedRecords(r) :
          /\ MappedCell(r, f) # NULL
          /\ (IF trimmed THEN Strip(MappedCell(r, f)) ELSE MappedCell(r, f)) # ""
          /\ \/ patients[i][f] = NULL
             \/ /\ f \in string_fields
                /\ (IF trimmed THEN Strip(patients[i][f]) ELSE patients[i][f]) = ""

MissingCount(f) ==
    IF f \in DOMAIN resp.report.missing_data_summary
    THEN resp.report.missing_data_summary[f].missing_count ELSE 0

ReportMatches(trimmed) ==
    LET n == Len(RespFile.rows)
        fields == DOMAIN resp.column_map \cap all_canonical_fields
        returned == resp.report.rows_with_missing_data
    IN /\ \A f \in fields :
              MissingCount(f) = Cardinality({r \in 1..n : Counted(trimmed, r, f)})
       /\ \A f \in DOMAIN resp.report.missing_data_summary :
              Len(resp.report.missing_data_summary[f].sample_values) <= MaxSampleValues
       /\ Len(returned) <= MaxMissingRows
       /\ \A k \in 1..Len(returned) :
              \E r \in 1..n :
                  /\ returned[k].patient_key = ToString(r)
                  /\ DOMAIN returned[k].missing_fields = {f \in fields : Counted(trimmed, r, f)}
                  /\ DOMAIN returned[k].missing_fields # {}

\* C22 as stated: a (row, field) is counted exactly when the row is among
\* the first 100, a record has its ordinal key, the mapped cell is not
\* empty and the record's field is null or the empty string; at most 5
\* samples per field and 20 rows are returned
C22_MissingCountedWhenCellNotEmpty ==
    (resp.op = "reprocess_check" /\ resp.status = 200) => ReportMatches(FALSE)

\* C22 amended: as above, with "empty" meaning blank after trimming, for
\* the file cell (a cell of spaces is not counted) and for the stored value
C22_MissingCountedWhenCellNotBlank ==
    (resp.op = "reprocess_check" /\ resp.status = 200) => ReportMatches(TRUE)

\* a check of a file with more than 100 rows, the row after the bound with
\* a record that lacks a mapped value, a blank mapped cell on a row whose
\* record lacks the value, more than 5 counted rows for a field and more
\* than 20 rows with missing data
C22_Witness ==
    /\ resp.op = "reprocess_check" /\ resp.status = 200
    /\ Len(RespFile.rows) > SampledRows
    /\ "points" \in DOMAIN resp.column_map
    /\ \E i \in KeyedRecords(SampledRows + 1) :
          patients[i].points = NULL /\ MappedCell(SampledRows + 1, "points") = "7"
    /\ \E i \in KeyedRecords(2) :
          patients[i].points = NULL /\ MappedCell(2, "points") = " "
    /\ MissingCount("points") > MaxSampleValues
    /\ Len(resp.report.missing_data_summary["points"].sample_values) = MaxSampleValues
    /\ MissingCount("points") > MaxMissingRows
    /\ Len(resp.report.rows_with_missing_data) = MaxMissingRows

\* the (record, field) pairs a reprocess_check of the store db counts as
\* missing: those of the rows that add to a missing_count
CheckFlagged(file, column_map, db, d) ==
    LET n == IF Len(file.rows) < SampledRows THEN Len(file.rows) ELSE SampledRows
    IN UNION {{<<PatientByKey(db, d, ToString(r)), f>> :
                  f \in RowMissing(db, d, column_map, file.rows, r)} : r \in 1..n}

\* C23: every (record, canonical field) that reprocess-update writes is one
\* that reprocess-check, run on the same file and the store as it was just
\* before, counts as missing; every other field of every record is unchanged
C23_BackfillWritesOnlyFlagged ==
    (resp.op = "reprocess_update" /\ resp.status = 200) =>
        \A i \in 1..Len(patients) : \A f \in all_canonical_fields :
            patients[i][f] # before.patients[i][f] =>
                <<i, f>> \in CheckFlagged(RespFile, resp.column_map, before.patients,
                                          resp.dataset_id)

\* the rows of the file whose ordinal key is that of record i
OrdinalRows(i) ==
    {r \in 1..Len(RespFile.rows) :
        patients[i].dataset_id = resp.dataset_id /\ patients[i].patient_key = ToString(r)}

\* C24: add-unmapped-to-extra-fields leaves the stored column map, every
\* record's canonical fields and the value of every extension key that
\* existed before unchanged; the keys it adds are unmapped headers of the
\* file, added to a record that has the ordinal key of a row
C24_PromoteOnlyAddsUnmappedKeys ==
    resp.op = "add_unmapped_to_extra_fields" =>
        /\ datasets = before.datasets
        /\ Len(patients) = Len(before.patients)
        /\ \A i \in 1..Len(patients) :
              LET old == before.patients[i]
                  new == patients[i]
              IN /\ \A f \in all_canonical_fields \cup {"dataset_id", "patient_key"} :
                        new[f] = old[f]
                 /\ \A k \in DOMAIN old.extra_fields :
                        k \in DOMAIN new.extra_fields
                        /\ new.extra_fields[k] = old.extra_fields[k]
                 /\ \A k \in DOMAIN new.extra_fields \ DOMAIN old.extra_fields :
                        /\ OrdinalRows(i) # {}
                        /\ k \in Range(RespFile.columns)
                        /\ k \notin Range(resp.column_map)

\* a promotion that added keys to one record and left, on another, a key
\* whose value differs from the cell of that record's row
C24_Witness ==
    /\ resp.op = "add_unmapped_to_extra_fields" /\ resp.status = 200
    /\ \E i \in 1..Len(patients) :
          DOMAIN patients[i].extra_fields # DOMAIN before.patients[i].extra_fields
    /\ \E i \in 1..Len(patients) : \E r \in OrdinalRows(i) :
          \E k \in DOMAIN before.patients[i].extra_fields :
              /\ k \in Range(RespFile.columns) \ Range(resp.column_map)
              /\ RespFile.rows[r][k] # before.patients[i].extra_fields[k]

\* C26: every record's dataset_id names an existing dataset; a record that
\* left the store left it together with its dataset; delete-dataset removes
\* no record and no dataset that has records
C26_RecordsLeaveWithTheirDataset ==
    /\ \A i \in 1..Len(patients) : patients[i].dataset_id \in DOMAIN datasets
    /\ \A i \in (Len(patients) + 1)..Len(before.patients) :
           before.patients[i].dataset_id \notin DOMAIN datasets
    /\ (resp.op = "delete_dataset" /\ resp.status = 200) =>
           /\ patients = before.patients
           /\ \A i \in 1..Len(patients) : patients[i].dataset_id # resp.dataset_id
    /\ (resp.op = "delete_dataset" /\ resp.status = 400) => datasets = before.datasets

\* delete-dataset was refused for a dataset that has records
C26_Witness ==
    /\ resp.op = "delete_dataset" /\ resp.status = 400
    /\ resp.dataset_id \in DOMAIN datasets
    /\ \E i \in 1..Len(patients) : patients[i].dataset_id = resp.dataset_id

\* ------------------------------------------------------------------ C28
\* the pass failed with the error an unassigned local raises when read
UnboundRead == resp.op = "map_columns" /\ resp.status = 500

\* C28: in apply-mapping the extension map merged into a row's extension
\* data is that of the record the row resolves to; on the first row of a
\* pass the existing-record variable is not read before a lookup has
\* assigned it, so a pass over a validated map never fails on that read.
C28_ExistingReadAfterLookup ==
    MapValidated /\ RespRows # {} => ~UnboundRead

\* ------------------------------------------------------------------ C30
\* C30: reprocess-check is read-only: whatever it reports, every record
\* (canonical fields, extension map, raw snapshot) and every dataset's
\* stored column map are as the request found them; on a dataset with no
\* stored column map the request is rejected, changing nothing.
C30_CheckReadsOnly ==
    resp.op = "reprocess_check" =>
        /\ patients = before.patients
        /\ datasets = before.datasets
        /\ before.datasets[resp.dataset_id].column_map = EmptyMap => resp.status = 400

\* a check that reported a null points whose cell holds a value, on a
\* store it left alone
C30_Witness ==
    /\ resp.op = "reprocess_check" /\ resp.status = 200
    /\ "points" \in DOMAIN resp.report.missing_data_summary
    /\ resp.report.rows_with_missing_data # << >>
    /\ \E i \in 1..Len(patients) :
          /\ patients[i].dataset_id = resp.dataset_id
          /\ patients[i].points = NULL
          /\ patients[i].extra_fields # EmptyMap

\* ------------------------------------------------------------------ C29
\* backfill runs on either database: a dataset with a stored column map, a
\* two-row file and up to two records under the ordinal keys, each with its
\* points and mrn filled or not
BackfillFileIds == {1, 3} \cup NanFileIds

BackfillRecord(k, mrn, points) ==
    [dataset_id |-> 1, patient_key |-> ToString(k), mrn |-> mrn, points |-> points,
     pca_confirmed |-> NULL, raw |-> EmptyMap, extra_fields |-> EmptyMap]

BackfillStores ==
    UNION {[1..n -> {NULL, "M9"} \X {NULL, "7.0"}] : n \in 0..2}

BackfillInit ==
    \E e \in Engines, f \in BackfillFileIds, cm \in SampleMaps, store \in BackfillStores :
        /\ engine = e
        /\ datasets = (1 :> [name |-> UploadName, file |-> f, column_map |-> cm])
        /\ patients = [k \in DOMAIN store |-> BackfillRecord(k, store[k][1], store[k][2])]
        /\ resp = NoResp
        /\ before = [datasets |-> EmptyMap, patients |-> << >>]

BackfillNext == \E d \in UploadedIds : reprocess_update(d)

SpecBackfill == BackfillInit /\ [][BackfillNext]_vars

\* a reprocess-update that follows a reprocess-update of the same dataset
\* at once: no request came between the two, so the file and the stored
\* column map are those of the first run
SecondRun ==
    /\ resp.op = "reprocess_update" /\ resp.status = 200
    /\ resp'.op = "reprocess_update" /\ resp'.dataset_id = resp.dataset_id

Passes == {1, 2}
Processes == {1, 2}

IdlePass ==
    [pc |-> "idle", kind |-> "none", process |-> 0, file |-> NoFile, match_by_mrn |-> FALSE,
     req |-> [column_map |-> EmptyMap, create_extra_fields |-> EmptyMap],
     row |-> 0, loaded |-> << >>, objs |-> << >>, pending |-> << >>,
     existing |-> ExistingBeforeLoop, status |-> 0]

\* the event loop of process w is not inside another handler
ProcessFree(w, p) ==
    \A q \in Passes \ {p} : ~(resp.pass[q].pc = "rows" /\ resp.pass[q].process = w)

\* what the session of a pass works on: the committed rows, and for the
\* records it holds changed its own objects
SessionView(pass) ==
    [i \in 1..Len(patients) |-> IF i \in DOMAIN pass.objs THEN pass.objs[i] ELSE patients[i]]

\* the session after a row: the records the row changed join the session
SessionAfter(pass, view, objs, pending) ==
    LET held == DOMAIN pass.objs \cup {i \in 1..Len(view) : objs[i] # view[i]}
    IN [pass EXCEPT
          !.loaded = [i \in held |-> IF i \in DOMAIN pass.loaded THEN pass.loaded[i]
                                     ELSE patients[i]],
          !.objs = [i \in held |-> objs[i]],
          !.pending = pending,
          !.row = @ + 1]

\* db.commit(): an UPDATE of the attributes the session changed, an INSERT
\* of the records it added
Committed(pass) ==
    LET merged(i) ==
            IF i \notin DOMAIN pass.objs THEN patients[i]
            ELSE [k \in DOMAIN patients[i] |->
                    IF pass.objs[i][k] # pass.loaded[i][k] THEN pass.objs[i][k]
                    ELSE patients[i][k]]
    IN [n \in 1..(Len(patients) + Len(pass.pending)) |->
          Persist(IF n <= Len(patients) THEN merged(n)
                  ELSE pass.pending[n - Len(patients)])]

PassRows(pass) == FileById(pass.file).rows

\* upload-file is called: the file is parsed, the default dataset found
upload_file_begins(p, f, match_by_mrn, w) ==
    /\ resp.pass[p].pc = "idle"
    /\ ProcessFree(w, p)
    /\ DefaultId \in DOMAIN datasets
    /\ resp' = [resp EXCEPT !.op = "upload_file_begins",
                            !.pass[p] = [IdlePass EXCEPT !.pc = "rows", !.kind = "upload_file",
                                                         !.process = w, !.file = f,
                                                         !.match_by_mrn = match_by_mrn,
                                                         !.row = 1]]
    /\ UNCHANGED <<datasets, patients, before, engine>>

\* apply-mapping is called: the map is validated and the file read
map_columns_begins(p, d, req, w) ==
    /\ resp.pass[p].pc = "idle"
    /\ ProcessFree(w, p)
    /\ d \in DOMAIN datasets
    /\ LET rejected == \/ req.column_map = EmptyMap
                       \/ ~FileReadable(d)
                       \/ InvalidColumns(req.column_map, FileOf(d).columns) # {}
       IN resp' = [resp EXCEPT
                     !.op = "map_columns_begins",
                     !.pass[p] = [IdlePass EXCEPT
                                    !.pc = IF rejected THEN "done" ELSE "rows",
                                    !.status = IF rejected THEN 400 ELSE 0,
                                    !.kind = "map_columns", !.process = w,
                                    !.file = datasets[d].file, !.req = req, !.row = 1]]
    /\ UNCHANGED <<datasets, patients, before, engine>>

\* one iteration of the row loop of a pass: its lookups read what is
\* committed at that moment
pass_row(p) ==
    LET pass == resp.pass[p]
        view == SessionView(pass)
    IN /\ pass.pc = "rows"
       /\ pass.row <= Len(PassRows(pass))
       /\ UNCHANGED <<datasets, patients, before, engine>>
       /\ IF pass.kind = "upload_file"
          THEN \E auto_mapped \in {auto_map_columns(FileById(pass.file).columns, EmptyMap,
                                                    UploadMinConfidence, 0)} :
               \E st \in {UploadRow([db |-> patients, objs |-> view, pending |-> pass.pending,
                                     created |-> 0, updated |-> 0, resolved |-> << >>],
                                    FileById(pass.file), auto_mapped, pass.match_by_mrn,
                                    pass.row)} :
                  resp' = [resp EXCEPT !.op = "pass_row",
                                       !.pass[p] = SessionAfter(pass, view, st.objs, st.pending)]
          ELSE \E st \in {MapRow([objs |-> view, pending |-> pass.pending,
                                  existing |-> pass.existing, created |-> 0, updated |-> 0,
                                  err |-> 0, status |-> 200, resolved |-> << >>],
                                 patients, 1, pass.req, PassRows(pass)[pass.row], pass.row)} :
                  resp' = [resp EXCEPT
                             !.op = "pass_row",
                             !.pass[p] =
                                IF st.err # 0
                                THEN [pass EXCEPT !.pc = "done", !.status = st.status,
                                                  !.loaded = << >>, !.objs = << >>,
                                                  !.pending = << >>]
                                ELSE [SessionAfter(pass, view, st.objs, st.pending)
                                        EXCEPT !.existing = st.existing]]

\* the commit after the row loop; upload-file then fails building its
\* response, apply-mapping stores the column map with the same commit
pass_commit(p) ==
    LET pass == resp.pass[p]
    IN /\ pass.pc = "rows"
       /\ pass.row > Len(PassRows(pass))
       /\ patients' = Committed(pass)
       /\ datasets' = IF pass.kind = "map_columns"
                      THEN SaveColumnMap(datasets, 1, pass.req.column_map) ELSE datasets
       /\ resp' = [resp EXCEPT !.op = "pass_commit",
                               !.pass[p] = [pass EXCEPT
                                              !.pc = "done",
                                              !.status = IF pass.kind = "map_columns"
                                                         THEN 200 ELSE 500]]
       /\ UNCHANGED <<before, engine>>

\* the store the two requests find: the default dataset and an uploaded
\* dataset with no column map yet, whose file has data rows or none; no
\* records, or those of an earlier upload-file of the first file
UploadResult(db, file, match_by_mrn) ==
    LET st0 == [db |-> db, objs |-> db, pending |-> << >>,
                created |-> 0, updated |-> 0, resolved |-> << >>]
        auto_mapped == auto_map_columns(file.columns, EmptyMap, UploadMinConfidence, 0)
        st == UploadRows(st0, file, auto_mapped, match_by_mrn, 1)
    IN [n \in 1..(Len(st.objs) + Len(st.pending)) |-> Persist((st.objs \o st.pending)[n])]

ConcurrentFiles == {f \in UploadFiles : f \in FileIds}

ConcurrentRequests ==
    {req \in MapRequests : req.column_map # EmptyMap
                           /\ InvalidColumns(req.column_map, Headers) = {}}

ConcurrentInit ==
    \E f \in {1, 2}, earlier \in BOOLEAN :
        /\ engine = DefaultEngine
        /\ datasets = (DefaultId :> [name |-> DefaultName, file |-> NoFile,
                                     column_map |-> EmptyMap])
                      @@ (1 :> [name |-> UploadName, file |-> f, column_map |-> EmptyMap])
        /\ patients = IF earlier THEN UploadResult(<< >>, FileById(1), TRUE) ELSE << >>
        /\ before = [datasets |-> datasets, patients |-> patients]
        /\ resp = [op |-> "none", pass |-> [p \in Passes |-> IdlePass]]

ConcurrentNext ==
    \/ \E p \in Passes, f \in ConcurrentFiles, match_by_mrn \in BOOLEAN, w \in Processes :
          upload_file_begins(p, f, match_by_mrn, w)
    \/ \E p \in Passes, req \in ConcurrentRequests, w \in Processes :
          map_columns_begins(p, 1, req, w)
    \/ \E p \in Passes : pass_row(p)
    \/ \E p \in Passes : pass_commit(p)

SpecConcurrent == ConcurrentInit /\ [][ConcurrentNext]_vars

\* ------------------------------------------------------------------ C25
\* both requests have returned, and they were passes on one dataset
BothDone ==
    /\ \A p \in Passes : resp.pass[p].pc = "done"
    /\ resp.pass[1].kind = resp.pass[2].kind

\* the tables after the pass alone, start to end, on the given tables
PassAlone(tables, pass) ==
    IF pass.kind = "upload_file"
    THEN [tables EXCEPT !.patients = UploadResult(@, FileById(pass.file), pass.match_by_mrn)]
    ELSE IF pass.status = 400 THEN tables
    ELSE LET st0 == [objs |-> tables.patients, pending |-> << >>,
                     existing |-> ExistingBeforeLoop,
                     created |-> 0, updated |-> 0, err |-> 0, status |-> 200,
                     resolved |-> << >>]
             st == MapRows(st0, tables.patients, 1, pass.req, PassRows(pass), 1)
         IN IF st.err # 0 THEN tables
            ELSE [datasets |-> SaveColumnMap(tables.datasets, 1, pass.req.column_map),
                  patients |-> [n \in 1..(Len(st.objs) + Len(st.pending)) |->
                                   Persist((st.objs \o st.pending)[n])]]

\* the records of a table with their multiplicities
BagOf(db) == [r \in Range(db) |-> Cardinality({i \in 1..Len(db) : db[i] = r})]

SerialOutcome(p, q) == PassAlone(PassAlone(before, resp.pass[p]), resp.pass[q])

SameTables(tables) ==
    /\ datasets = tables.datasets
    /\ BagOf(patients) = BagOf(tables.patients)

CreatedKeys(p) == {resp.pass[p].pending[n].patient_key : n \in 1..Len(resp.pass[p].pending)}

====
